---- MODULE Spec2Model ----
(***************************************************************************)
(* Model of the forecast transformer (src/lib/parsers.ts): the header      *)
(* classifier, the date resolver, the week-range expander, the table       *)
(* parser and the row transformer.                                         *)
(*                                                                         *)
(* JavaScript strings are TLA+ strings, read with Len, SubSeq and \o.      *)
(* The two Unicode dashes the code normalises cannot be written in a TLA+  *)
(* string; EnDash and EmDash stand for U+2013 and U+2014.                  *)
(* string | null results are records [some |-> BOOLEAN, val |-> ...].      *)
(***************************************************************************)
EXTENDS Integers, Sequences, FiniteSets, TLC

VARIABLES host, grid, options, parsed, result, pc, input, output,
          page, fileUpload, pending

vars == <<host, grid, options, parsed, result, pc, input, output,
         page, fileUpload, pending>>

(***************************************************************************)
(* Characters and the String methods the code calls                        *)
(***************************************************************************)
EnDash == "~"
EmDash == "^"
Tab == "\t"

Ch(s, i) == SubSeq(s, i, i)

Digits == "0123456789"
UpperLetters == "ABCDEFGHIJKLMNOPQRSTUVWXYZ"
LowerLetters == "abcdefghijklmnopqrstuvwxyz"

DigitSet == {Ch(Digits, i) : i \in 1..10}
DigitValues == [c \in DigitSet |-> (CHOOSE i \in 1..10 : Ch(Digits, i) = c) - 1]
UpperSet == {Ch(UpperLetters, i) : i \in 1..26}
LowerSet == {Ch(LowerLetters, i) : i \in 1..26}
LowerOf == [c \in UpperSet |-> Ch(LowerLetters, CHOOSE i \in 1..26 : Ch(UpperLetters, i) = c)]
UpperOf == [c \in LowerSet |-> Ch(UpperLetters, CHOOSE i \in 1..26 : Ch(LowerLetters, i) = c)]

IsDigit(c) == c \in DigitSet
DigitVal(c) == DigitValues[c]
\* the white space of \s and trim() that the inputs use
IsSpace(c) == c = " " \/ c = Tab
IsDash(c) == c = "-" \/ c = EnDash \/ c = EmDash

\* String.prototype.toLowerCase, one character
LowerCh(c) == IF c \in UpperSet THEN LowerOf[c] ELSE c

\* String.prototype.toUpperCase, one character
UpperCh(c) == IF c \in LowerSet THEN UpperOf[c] ELSE c

RECURSIVE MapChars(_, _, _)
MapChars(s, i, kind) ==
  IF i > Len(s) THEN ""
  ELSE LET c == Ch(s, i)
           r == CASE kind = "lower" -> LowerCh(c)
                  [] kind = "upper" -> UpperCh(c)
                  [] kind = "dash" -> IF c = EnDash \/ c = EmDash THEN "-" ELSE c
       IN r \o MapChars(s, i + 1, kind)

ToLowerCase(s) == MapChars(s, 1, "lower")
ToUpperCase(s) == MapChars(s, 1, "upper")
\* .replace(/[en-dash em-dash]/g, '-')
NormalizeDashes(s) == MapChars(s, 1, "dash")

\* least index >= i that holds no white space (Len(s) + 1 when there is none)
SkipSpaces(s, i) ==
  CHOOSE j \in i..(Len(s) + 1) :
    /\ \A k \in i..(j - 1) : IsSpace(Ch(s, k))
    /\ (j = Len(s) + 1 \/ ~IsSpace(Ch(s, j)))

\* number of consecutive digits of s from index i on
DigitRun(s, i) ==
  (CHOOSE j \in i..(Len(s) + 1) :
     /\ \A k \in i..(j - 1) : IsDigit(Ch(s, k))
     /\ (j = Len(s) + 1 \/ ~IsDigit(Ch(s, j)))) - i

\* String.prototype.trim
Trim(s) ==
  LET lo == SkipSpaces(s, 1)
  IN IF lo > Len(s) THEN ""
     ELSE LET hi == CHOOSE j \in lo..Len(s) :
                      /\ ~IsSpace(Ch(s, j))
                      /\ \A k \in (j + 1)..Len(s) : IsSpace(Ch(s, k))
          IN SubSeq(s, lo, hi)

\* .replace(/\s+/g, ' ')
RECURSIVE CollapseFrom(_, _)
CollapseFrom(s, i) ==
  IF i > Len(s) THEN ""
  ELSE IF IsSpace(Ch(s, i))
       THEN " " \o CollapseFrom(s, SkipSpaces(s, i))
       ELSE Ch(s, i) \o CollapseFrom(s, i + 1)

CollapseSpaces(s) == CollapseFrom(s, 1)

AllDigits(s) == Len(s) > 0 /\ \A i \in 1..Len(s) : IsDigit(Ch(s, i))

\* a number too large for the date range, standing for every larger one
HugeNumber == 1000000000

\* parseInt on a string of digits (decimal); 10 or more significant digits
\* read as HugeNumber
RECURSIVE DigitsValue(_, _, _)
DigitsValue(s, i, acc) ==
  IF i > Len(s) THEN acc
  ELSE IF acc >= HugeNumber \div 10 THEN HugeNumber
       ELSE DigitsValue(s, i + 1, acc * 10 + DigitVal(Ch(s, i)))

NaNValue == -1

\* parseInt(s, 10) for s starting with digits or not: the leading digits,
\* NaN when there is none
ParseInt(s) ==
  LET n == DigitRun(s, 1)
  IN IF Len(s) = 0 \/ n = 0 THEN NaNValue ELSE DigitsValue(SubSeq(s, 1, n), 1, 0)

\* String(n) of a non-negative integer
RECURSIVE NatToString(_)
NatToString(n) ==
  IF n < 10 THEN Ch(Digits, n + 1)
  ELSE NatToString(n \div 10) \o Ch(Digits, (n % 10) + 1)

\* String(n) of an integer
NumberToString(n) == IF n < 0 THEN "-" \o NatToString(0 - n) ELSE NatToString(n)

\* s.padStart(2, '0')
PadStart2(s) == IF Len(s) >= 2 THEN s ELSE IF Len(s) = 1 THEN "0" \o s ELSE "00"

Some(v) == [some |-> TRUE, val |-> v]
NullString == [some |-> FALSE, val |-> ""]
NullList == [some |-> FALSE, val |-> <<>>]

(***************************************************************************)
(* The JavaScript Date object, as far as the code uses it.  A calendar day *)
(* is counted in days from 1970-01-01 (proleptic Gregorian calendar).      *)
(***************************************************************************)
IsLeapYear(y) == (y % 4 = 0 /\ y % 100 # 0) \/ y % 400 = 0

DaysInMonth(y, m) ==
  CASE m = 2 -> IF IsLeapYear(y) THEN 29 ELSE 28
    [] m \in {4, 6, 9, 11} -> 30
    [] OTHER -> 31

\* MakeDay of ECMAScript for a month in 1..12 and day 1
DaysFromCivil(y, m, d) ==
  LET yy == IF m <= 2 THEN y - 1 ELSE y
      era == yy \div 400
      yoe == yy - era * 400
      mp == (m + 9) % 12
      doy == (153 * mp + 2) \div 5 + d - 1
      doe == yoe * 365 + yoe \div 4 - yoe \div 100 + doy
  IN era * 146097 + doe - 719468

\* YearFromTime, MonthFromTime, DateFromTime of ECMAScript
CivilFromDays(z) ==
  LET zz == z + 719468
      era == zz \div 146097
      doe == zz - era * 146097
      yoe == (doe - doe \div 1460 + doe \div 36524 - doe \div 146096) \div 365
      doy == doe - (365 * yoe + yoe \div 4 - yoe \div 100)
      mp == (5 * doy + 2) \div 153
      d == doy - (153 * mp + 2) \div 5 + 1
      m == IF mp < 10 THEN mp + 3 ELSE mp - 9
      y == yoe + era * 400 + (IF m <= 2 THEN 1 ELSE 0)
  IN [year |-> y, month |-> m, day |-> d]

\* a time value is within the Date range when it is at most 8.64e15 ms
\* (100,000,000 days) from 1970-01-01
MaxDateDays == 100000000

\* Date.UTC(1899, 11, 30) in days
ExcelOriginDays == DaysFromCivil(1899, 12, 30)

(***************************************************************************)
(* The host the code runs on: its time zone and its JavaScript engine.     *)
(*   west        local time is behind UTC (getFullYear of a UTC midnight   *)
(*               gives the previous local day)                             *)
(*   midnightGap the local day of 2025 on which daylight-saving time       *)
(*               starts at 00:00, so that local midnight does not exist    *)
(*               and new Date(y, m, d) is 01:00 of that day; 0 when the    *)
(*               zone has no such day                                      *)
(*   lenientIso  new Date("YYYY-MM-DD") accepts any day 01..31 and rolls   *)
(*               an overflowing day into the next month (V8) instead of    *)
(*               giving an invalid date (SpiderMonkey, JavaScriptCore)     *)
(***************************************************************************)
Hosts ==
  { [zone |-> "UTC", west |-> FALSE, midnightGap |-> 0, lenientIso |-> TRUE],
    [zone |-> "Europe/Stockholm", west |-> FALSE, midnightGap |-> 0, lenientIso |-> FALSE],
    [zone |-> "America/New_York", west |-> TRUE, midnightGap |-> 0, lenientIso |-> TRUE],
    [zone |-> "America/Santiago", west |-> TRUE,
     midnightGap |-> DaysFromCivil(2025, 9, 7), lenientIso |-> FALSE] }

\* new Date(year, monthZeroBased, day): local midnight of the day, the day
\* number rolling over the month's ends
LocalDate(year, monthZeroBased, day) ==
  LET z == DaysFromCivil(year, monthZeroBased + 1, 1) + day - 1
  IN [day |-> z, hour |-> IF z = host.midnightGap THEN 1 ELSE 0]

\* d.setDate(d.getDate() + 1): the next local day at the same local time
NextLocalDay(d) ==
  LET z == d.day + 1
  IN [day |-> z, hour |-> IF z = host.midnightGap /\ d.hour = 0 THEN 1 ELSE d.hour]

\* d <= end on two local dates
DateLeq(d, end) == d.day < end.day \/ (d.day = end.day /\ d.hour <= end.hour)

\* new Date("YYYY-MM-DD") on a string of that shape: UTC midnight of the date
IsoStringToDate(yearStr, mm, dd) ==
  LET y == ParseInt(yearStr)
      m == ParseInt(mm)
      d == ParseInt(dd)
      okMonth == m >= 1 /\ m <= 12
      okDay == d >= 1 /\ d <= (IF host.lenientIso THEN 31 ELSE DaysInMonth(y, m))
  IN IF okMonth /\ okDay
     THEN [valid |-> TRUE, day |-> DaysFromCivil(y, m, 1) + d - 1]
     ELSE [valid |-> FALSE, day |-> 0]

\* getFullYear() of a UTC midnight: the local year
LocalFullYear(utcDay) ==
  LET c == CivilFromDays(utcDay)
  IN IF host.west /\ c.month = 1 /\ c.day = 1 THEN c.year - 1 ELSE c.year

\* formatIsoDate without padStart
formatIsoDate_noPad(year, monthZeroBased, day) ==
  NumberToString(year) \o "-" \o NumberToString(monthZeroBased + 1)
    \o "-" \o NumberToString(day)

\* formatIsoDate (parsers.ts:29)
formatIsoDate(year, monthZeroBased, day) ==
  NumberToString(year) \o "-" \o PadStart2(NumberToString(monthZeroBased + 1))
    \o "-" \o PadStart2(NumberToString(day))

\* toISOString().split('T')[0] of a UTC midnight in the years 0..9999
ToIsoDatePart(utcDay) ==
  LET c == CivilFromDays(utcDay)
      y == NumberToString(c.year)
      yyyy == CASE Len(y) = 1 -> "000" \o y
                [] Len(y) = 2 -> "00" \o y
                [] Len(y) = 3 -> "0" \o y
                [] OTHER -> y
  IN yyyy \o "-" \o PadStart2(NumberToString(c.month)) \o "-" \o PadStart2(NumberToString(c.day))

\* excelSerialToIso (parsers.ts:37): an out-of-range time value is an invalid
\* Date, whose getUTC* are NaN
excelSerialToIso(serial) ==
  LET z == ExcelOriginDays + serial
  IN IF serial >= HugeNumber \/ z > MaxDateDays \/ z < 0 - MaxDateDays
     THEN "NaN-NaN-NaN"
     ELSE LET c == CivilFromDays(z) IN formatIsoDate(c.year, c.month - 1, c.day)


(***************************************************************************)
(* Week-Range Expander, Header Classifier, Date Resolver                   *)
(***************************************************************************)
\* the keys of monthMap (parsers.ts:335, 448)
MonthKeys == {"jan", "feb", "mar", "apr", "may", "jun", "jul", "aug", "sep",
              "oct", "okt", "nov", "dec"}

monthMap(key) ==
  CASE key = "jan" -> 0 [] key = "feb" -> 1 [] key = "mar" -> 2
    [] key = "apr" -> 3 [] key = "may" -> 4 [] key = "jun" -> 5
    [] key = "jul" -> 6 [] key = "aug" -> 7 [] key = "sep" -> 8
    [] key = "oct" -> 9 [] key = "okt" -> 9 [] key = "nov" -> 10
    [] key = "dec" -> 11

\* (Jan|Feb|...|okt|nov|dec) with the i flag, at index i of s
MatchMonth(s, i) ==
  i >= 1 /\ i + 2 <= Len(s) /\ ToLowerCase(SubSeq(s, i, i + 2)) \in MonthKeys

NoMatch == [ok |-> FALSE, g1 |-> "", g2 |-> "", g3 |-> "", g4 |-> ""]

\* /^(Mon)\s+(\d{1,2})\s*[-dashes]\s*(Mon)\s+(\d{1,2})$/i
rangePattern1(s) ==
  IF ~MatchMonth(s, 1) THEN NoMatch
  ELSE LET q1 == SkipSpaces(s, 4)
           n1 == DigitRun(s, q1)
           r == SkipSpaces(s, q1 + n1)
       IN IF ~(q1 > 4 /\ n1 \in {1, 2} /\ r <= Len(s) /\ IsDash(Ch(s, r)))
          THEN NoMatch
          ELSE LET t == SkipSpaces(s, r + 1) IN
               IF ~MatchMonth(s, t) THEN NoMatch
               ELSE LET u == SkipSpaces(s, t + 3)
                        n2 == DigitRun(s, u)
                    IN IF u > t + 3 /\ n2 \in {1, 2} /\ u + n2 - 1 = Len(s)
                       THEN [ok |-> TRUE, g1 |-> SubSeq(s, 1, 3),
                             g2 |-> SubSeq(s, q1, q1 + n1 - 1),
                             g3 |-> SubSeq(s, t, t + 2),
                             g4 |-> SubSeq(s, u, u + n2 - 1)]
                       ELSE NoMatch

\* /^(Mon)\s+(\d{1,2})\s*[-dashes]\s*(\d{1,2})$/i
rangePattern2(s) ==
  IF ~MatchMonth(s, 1) THEN NoMatch
  ELSE LET q1 == SkipSpaces(s, 4)
           n1 == DigitRun(s, q1)
           r == SkipSpaces(s, q1 + n1)
       IN IF ~(q1 > 4 /\ n1 \in {1, 2} /\ r <= Len(s) /\ IsDash(Ch(s, r)))
          THEN NoMatch
          ELSE LET u == SkipSpaces(s, r + 1)
                   n2 == DigitRun(s, u)
               IN IF n2 \in {1, 2} /\ u + n2 - 1 = Len(s)
                  THEN [ok |-> TRUE, g1 |-> SubSeq(s, 1, 3),
                        g2 |-> SubSeq(s, q1, q1 + n1 - 1),
                        g3 |-> SubSeq(s, u, u + n2 - 1), g4 |-> ""]
                  ELSE NoMatch

\* /^(Mon)\s+(\d{1,2})$/i
monthNamePattern(s) ==
  IF ~MatchMonth(s, 1) THEN NoMatch
  ELSE LET q1 == SkipSpaces(s, 4)
           n1 == DigitRun(s, q1)
       IN IF q1 > 4 /\ n1 \in {1, 2} /\ q1 + n1 - 1 = Len(s)
          THEN [ok |-> TRUE, g1 |-> SubSeq(s, 1, 3),
                g2 |-> SubSeq(s, q1, q1 + n1 - 1), g3 |-> "", g4 |-> ""]
          ELSE NoMatch

\* the ISO pattern accepting the months 00..12 only
isoPattern_monthChecked(s) ==
  /\ Len(s) = 10
  /\ AllDigits(SubSeq(s, 1, 4)) /\ Ch(s, 5) = "-"
  /\ AllDigits(SubSeq(s, 6, 7)) /\ Ch(s, 8) = "-"
  /\ AllDigits(SubSeq(s, 9, 10))
  /\ ParseInt(SubSeq(s, 6, 7)) <= 12

\* /^\d{4}-\d{2}-\d{2}$/
isoPattern(s) ==
  /\ Len(s) = 10
  /\ AllDigits(SubSeq(s, 1, 4)) /\ Ch(s, 5) = "-"
  /\ AllDigits(SubSeq(s, 6, 7)) /\ Ch(s, 8) = "-"
  /\ AllDigits(SubSeq(s, 9, 10))

\* /^\d{2}\/\d{2}\/\d{4}$/
slashPattern22(s) ==
  /\ Len(s) = 10
  /\ AllDigits(SubSeq(s, 1, 2)) /\ Ch(s, 3) = "/"
  /\ AllDigits(SubSeq(s, 4, 5)) /\ Ch(s, 6) = "/"
  /\ AllDigits(SubSeq(s, 7, 10))

\* /^\d{1,2}\/\d{1,2}\/\d{4}$/ and the three parts of split('/')
slashPattern(s) ==
  LET n1 == DigitRun(s, 1)
      n2 == IF n1 + 2 <= Len(s) THEN DigitRun(s, n1 + 2) ELSE 0
      y == n1 + n2 + 3
  IN IF /\ n1 \in {1, 2} /\ n2 \in {1, 2}
        /\ y + 3 = Len(s)
        /\ Ch(s, n1 + 1) = "/" /\ Ch(s, n1 + n2 + 2) = "/"
        /\ AllDigits(SubSeq(s, y, y + 3))
     THEN [ok |-> TRUE, g1 |-> SubSeq(s, 1, n1),
           g2 |-> SubSeq(s, n1 + 2, n1 + n2 + 1),
           g3 |-> SubSeq(s, y, y + 3), g4 |-> ""]
     ELSE NoMatch

\* the loop of parsers.ts:379: for (d = start; d <= end; d.setDate(d.getDate() + 1))
RECURSIVE DatesInRange(_, _)
DatesInRange(d, end) ==
  IF ~DateLeq(d, end) THEN <<>>
  ELSE LET c == CivilFromDays(d.day)
       IN <<formatIsoDate(c.year, c.month - 1, c.day)>> \o DatesInRange(NextLocalDay(d), end)

\* return dates, an empty list included
NonEmptyOrNull_always(dates) == Some(dates)

\* return dates.length > 0 ? dates : null  (parsers.ts:384)
NonEmptyOrNull(dates) == IF Len(dates) > 0 THEN Some(dates) ELSE NullList

\* .trim().replace(/\s+/g, ' ').replace(/[en-dash em-dash]/g, '-')
NormalizeHeader(s) == NormalizeDashes(CollapseSpaces(Trim(s)))

\* the dates of a header either range pattern has matched (parsers.ts:343-384)
WeekRangeOfMatches(match1, match2) ==
  IF ~match1.ok /\ ~match2.ok THEN NullList
  ELSE LET year == 2025
           startMonth == monthMap(ToLowerCase(IF match1.ok THEN match1.g1 ELSE match2.g1))
           startDay == ParseInt(IF match1.ok THEN match1.g2 ELSE match2.g2)
           endMonth == IF match1.ok THEN monthMap(ToLowerCase(match1.g3)) ELSE startMonth
           endDay == ParseInt(IF match1.ok THEN match1.g4 ELSE match2.g3)
       IN NonEmptyOrNull(DatesInRange(LocalDate(year, startMonth, startDay),
                                      LocalDate(year, endMonth, endDay)))

parseWeekRange(rangeStr) ==
  WeekRangeOfMatches(rangePattern1(NormalizeHeader(rangeStr)),
                     rangePattern2(NormalizeHeader(rangeStr)))

\* the five tests of isValidDateHeader on the normalized header
MatchesDatePattern(normalized) ==
  \/ parseWeekRange(normalized).some
  \/ isoPattern(normalized)
  \/ slashPattern22(normalized)
  \/ AllDigits(normalized)
  \/ monthNamePattern(normalized).ok

isValidDateHeader(header) ==
  IF header = "" THEN FALSE ELSE MatchesDatePattern(NormalizeHeader(header))

\* the slash branch of parseDate (parsers.ts:420-436) on the match's parts:
\* month first, then day first, null when neither is accepted
SlashDate(a, b, year) ==
  LET mmdd == IsoStringToDate(year, PadStart2(a), PadStart2(b))
      ddmm == IsoStringToDate(year, PadStart2(b), PadStart2(a))
  IN IF mmdd.valid /\ LocalFullYear(mmdd.day) = ParseInt(year)
     THEN Some(ToIsoDatePart(mmdd.day))
     ELSE IF ddmm.valid /\ LocalFullYear(ddmm.day) = ParseInt(year)
     THEN Some(ToIsoDatePart(ddmm.day))
     ELSE NullString

\* the branches of parseDate on the trimmed string and its two matches
DateOfMatches(trimmed, slash, monthNameMatch) ==
  IF isoPattern(trimmed) THEN Some(trimmed)
  ELSE IF slash.ok /\ SlashDate(slash.g1, slash.g2, slash.g3).some
  THEN SlashDate(slash.g1, slash.g2, slash.g3)
  ELSE IF monthNameMatch.ok
  THEN Some(formatIsoDate(2025, monthMap(ToLowerCase(monthNameMatch.g1)),
                          ParseInt(monthNameMatch.g2)))
  ELSE IF AllDigits(trimmed) /\ ParseInt(trimmed) > 0
  THEN Some(excelSerialToIso(ParseInt(trimmed)))
  ELSE NullString

parseDate(dateStr) ==
  IF dateStr = "" THEN NullString
  ELSE DateOfMatches(Trim(dateStr), slashPattern(Trim(dateStr)),
                     monthNamePattern(Trim(dateStr)))

(***************************************************************************)
(* Amount Resolver                                                         *)
(* A number is [kind |-> "num", neg, int, frac, exp]: the decimal digits   *)
(* before and after the point and the power of ten, or kind "inf" / "nan". *)
(***************************************************************************)
NaNNumber == [kind |-> "nan", neg |-> FALSE, int |-> "", frac |-> "", exp |-> 0]

\* n times the digit 0
RECURSIVE Zeros(_)
Zeros(n) ==
  IF n <= 0 THEN ""
  ELSE IF n = 1 THEN "0"
  ELSE Zeros(n \div 2) \o Zeros(n - n \div 2)

\* a digit string without its leading zeros (one digit is always kept)
StripLeadingZeros(s) ==
  IF \E i \in 1..Len(s) : Ch(s, i) # "0"
  THEN SubSeq(s, CHOOSE i \in 1..Len(s) :
                   Ch(s, i) # "0" /\ \A j \in 1..(i - 1) : Ch(s, j) = "0", Len(s))
  ELSE IF Len(s) = 0 THEN s ELSE "0"

\* a digit string without its trailing zeros (one digit is always kept)
StripTrailingZeros(s) ==
  IF \E i \in 1..Len(s) : Ch(s, i) # "0"
  THEN SubSeq(s, 1, CHOOSE i \in 1..Len(s) :
                      Ch(s, i) # "0" /\ \A j \in (i + 1)..Len(s) : Ch(s, j) = "0")
  ELSE IF Len(s) = 0 THEN s ELSE "0"

\* a number whose digits are all 0
IsZeroNumber(v) ==
  v.kind = "num" /\ \A i \in 1..Len(v.int \o v.frac) : Ch(v.int \o v.frac, i) = "0"

\* the significant digits of a number that is not zero
SignificantDigits(v) == StripTrailingZeros(StripLeadingZeros(v.int \o v.frac))

\* the power of ten of the first significant digit of a number that is not zero
DecimalExponent(v) ==
  Len(v.int) + v.exp - (Len(v.int \o v.frac) - Len(StripLeadingZeros(v.int \o v.frac)) + 1)

\* digit i of a digit string, 0 past its end
DigitAt(s, i) == IF i <= Len(s) THEN DigitVal(Ch(s, i)) ELSE 0

\* 0.a <= 0.b on two digit strings
DigitsLeq(a, b) ==
  \A i \in 1..Len(a) :
    (\A j \in 1..(i - 1) : DigitAt(a, j) = DigitAt(b, j)) => DigitAt(a, i) <= DigitAt(b, i)

\* the digits of 2^1024 - 2^970 = 1.797...e308: a decimal literal of this
\* magnitude or more rounds to Infinity (IEEE 754 binary64, ties to even)
OverflowDigits ==
  "1797693134862315807937289714053034150799341327100378269361737789"
  \o "8044496829276475094664901797758720709633028641669288791094655554"
  \o "7851940402630657488671505820681908902000708383676273854845817711"
  \o "5317644757302700698555713669596228429148198608349364752927190741"
  \o "68444365510704342711559699508093042880177904174497792"

\* the digits of 2^-1075 = 2.470...e-324: a decimal literal of this magnitude
\* or less rounds to zero
UnderflowDigits ==
  "2470328229206232720882843964341106861825299013071623822127928412"
  \o "5033775363510437593264991818081799618989828234772285886546332835"
  \o "5177969898199387398005390939063150356595155702263922908583924491"
  \o "0518443593180284993653615250031937045767824921936562366986365848"
  \o "0757001585769269903706311928279558551332927834338409351978015531"
  \o "2465972635795746227664652728272200563740064854999770965994704540"
  \o "2082816622623785739345073633900796776193057750674017632467360096"
  \o "8951340535537458516661134223766678604162159680461914467291840300"
  \o "5300575308490487653917113865916462395249126236538818796362393732"
  \o "8042389101867234849766823508986338858792562830275599565752445550"
  \o "7255189313690836254779186948667994968324049705821028513185451396"
  \o "213837722826145437693412532098591327667236328125"

\* the value of a decimal literal as a Number: Infinity and zero at the ends of
\* the binary64 range; in between the literal's own digits stand for the value
\* (exact for the literals of at most 15 significant digits used here)
RoundToDouble(v) ==
  IF v.kind # "num" \/ IsZeroNumber(v) THEN v
  ELSE IF \/ DecimalExponent(v) > 308
          \/ /\ DecimalExponent(v) = 308
             /\ DigitsLeq(OverflowDigits, SignificantDigits(v))
  THEN [kind |-> "inf", neg |-> v.neg, int |-> "", frac |-> "", exp |-> 0]
  ELSE IF \/ DecimalExponent(v) < 0 - 324
          \/ /\ DecimalExponent(v) = 0 - 324
             /\ DigitsLeq(SignificantDigits(v), UnderflowDigits)
  THEN [kind |-> "num", neg |-> v.neg, int |-> "0", frac |-> "", exp |-> 0]
  ELSE v

\* the ExponentPart of a decimal literal at index q of s: its value, 0 when
\* s has none there
FloatExponent(s, q) ==
  LET hasE == q <= Len(s) /\ Ch(s, q) \in {"e", "E"}
      eSign == hasE /\ q + 1 <= Len(s) /\ Ch(s, q + 1) \in {"+", "-"}
      ep == IF eSign THEN q + 2 ELSE q + 1
  IN IF ~hasE \/ DigitRun(s, ep) = 0 THEN 0
     ELSE IF eSign /\ Ch(s, q + 1) = "-"
     THEN 0 - DigitsValue(SubSeq(s, ep, ep + DigitRun(s, ep) - 1), 1, 0)
     ELSE DigitsValue(SubSeq(s, ep, ep + DigitRun(s, ep) - 1), 1, 0)

\* the digits after the n1 integer digits found at index p of s
FloatFraction(s, neg, p, n1) ==
  LET hasPoint == p + n1 <= Len(s) /\ Ch(s, p + n1) = "."
      n2 == IF hasPoint THEN DigitRun(s, p + n1 + 1) ELSE 0
  IN IF n1 = 0 /\ n2 = 0 THEN NaNNumber
     ELSE [kind |-> "num", neg |-> neg,
           int |-> SubSeq(s, p, p + n1 - 1),
           frac |-> IF n2 > 0 THEN SubSeq(s, p + n1 + 1, p + n1 + n2) ELSE "",
           exp |-> FloatExponent(s, IF hasPoint THEN p + n1 + 1 + n2 ELSE p + n1)]

\* the unsigned literal at index p of s
FloatDigits(s, neg, p) ==
  IF p + 7 <= Len(s) /\ SubSeq(s, p, p + 7) = "Infinity"
  THEN [kind |-> "inf", neg |-> neg, int |-> "", frac |-> "", exp |-> 0]
  ELSE FloatFraction(s, neg, p, DigitRun(s, p))

\* the literal of a string without leading white space
FloatLiteral(s) ==
  IF Len(s) >= 1 /\ Ch(s, 1) \in {"+", "-"}
  THEN FloatDigits(s, Ch(s, 1) = "-", 2)
  ELSE FloatDigits(s, FALSE, 1)

\* parseFloat: the longest prefix that is a decimal literal
\* ([+-] (Infinity | digits [. digits] | . digits) [e [+-] digits])
parseFloat(str) == RoundToDouble(FloatLiteral(Trim(str)))

\* str.replace(',', '.'): the first comma only
ReplaceFirstComma(s) ==
  IF \E i \in 1..Len(s) : Ch(s, i) = ","
  THEN LET i == CHOOSE k \in 1..Len(s) :
                  Ch(s, k) = "," /\ \A j \in 1..(k - 1) : Ch(s, j) # ","
       IN SubSeq(s, 1, i - 1) \o "." \o SubSeq(s, i + 1, Len(s))
  ELSE s

NullNumber == [some |-> FALSE, val |-> NaNNumber]

\* a data cell a row does not have (row[i] is undefined)
Undefined == [defined |-> FALSE, s |-> ""]
Defined(s) == [defined |-> TRUE, s |-> s]

\* row[i] of a row of strings, i counted from 1
CellAt(row, i) == IF i >= 1 /\ i <= Len(row) THEN Defined(row[i]) ELSE Undefined

\* isNaN(parsed) ? null : parsed
NumberOrNull(parsed_) == IF parsed_.kind = "nan" THEN NullNumber ELSE Some(parsed_)

parseAmount(amountStr) ==
  IF ~amountStr.defined \/ amountStr.s = "" THEN NullNumber
  ELSE LET trimmed == Trim(amountStr.s)
       IN IF trimmed = "" THEN NullNumber
          ELSE NumberOrNull(parseFloat(ReplaceFirstComma(trimmed)))


\* the digit string of the number one greater
RECURSIVE Increment(_)
Increment(s) ==
  IF Len(s) = 0 THEN "1"
  ELSE LET last == Ch(s, Len(s))
           init == SubSeq(s, 1, Len(s) - 1)
       IN IF last = "9" THEN Increment(init) \o "0"
          ELSE init \o Ch(Digits, DigitVal(last) + 2)

\* the digits of a number before and after the decimal point, the power of
\* ten applied
PlainDigits(v) ==
  LET all == v.int \o v.frac
      point == Len(v.int) + v.exp
  IN IF point <= 0
     THEN [int |-> "0", frac |-> Zeros(0 - point) \o all]
     ELSE IF point >= Len(all)
     THEN [int |-> StripLeadingZeros(all \o Zeros(point - Len(all))), frac |-> ""]
     ELSE [int |-> StripLeadingZeros(SubSeq(all, 1, point)),
           frac |-> SubSeq(all, point + 1, Len(all))]

\* Number.prototype.toFixed(2).  A value of 1e21 or more is rendered by
\* Number::toString in exponential notation.  A third decimal of 5 or more
\* rounds up (an exact tie is decided by the binary value in JavaScript).
toFixed2(v) ==
  IF v.kind = "nan" THEN "NaN"
  ELSE IF v.kind = "inf" THEN (IF v.neg THEN "-Infinity" ELSE "Infinity")
  ELSE
    LET pd == PlainDigits(v)
        sign == IF v.neg /\ ~IsZeroNumber(v) THEN "-" ELSE ""
    IN IF Len(pd.int) >= 22
       THEN LET sig == StripTrailingZeros(pd.int)
            IN sign \o Ch(sig, 1)
                 \o (IF Len(sig) > 1 THEN "." \o SubSeq(sig, 2, Len(sig)) ELSE "")
                 \o "e+" \o NatToString(Len(pd.int) - 1)
       ELSE LET f == pd.frac \o "000"
                kept == pd.int \o SubSeq(f, 1, 2)
                rounded == IF DigitVal(Ch(f, 3)) >= 5 THEN Increment(kept) ELSE kept
                n == Len(rounded)
            IN sign \o SubSeq(rounded, 1, n - 2) \o "." \o SubSeq(rounded, n - 1, n)

(***************************************************************************)
(* Table Parser                                                            *)
(* A raw cell is a string or a number: [t |-> "s", s |-> ...] or           *)
(* [t |-> "n", n |-> ...] (whole numbers).  Columns are counted from 1;    *)
(* NotFound stands for the -1 of findIndex.                                *)
(***************************************************************************)
Str(x) == [t |-> "s", s |-> x, n |-> 0]
Num(k) == [t |-> "n", s |-> "", n |-> k]

NotFound == 0

\* cell?.toString() || ''
CellToString(cell) == IF cell.t = "n" THEN NumberToString(cell.n) ELSE cell.s

\* the header conversion of parsers.ts:188-195
ConvertHeader(h) ==
  IF h.t = "n" /\ h.n # 0
  THEN LET iso == excelSerialToIso(h.n)
           yr == ParseInt(SubSeq(iso, 1, 4))
       IN IF yr >= 1900 /\ yr <= 2100 THEN iso ELSE CellToString(h)
  ELSE CellToString(h)

findCategoryIndex(headers) ==
  IF \E i \in 1..Len(headers) : Trim(ToLowerCase(headers[i])) = "category"
  THEN CHOOSE i \in 1..Len(headers) :
         /\ Trim(ToLowerCase(headers[i])) = "category"
         /\ \A j \in 1..(i - 1) : Trim(ToLowerCase(headers[j])) # "category"
  ELSE NotFound

NoExpansions == [i \in {} |-> <<>>]

\* the scan going on after a non-date header instead of stopping
RECURSIVE ScanHeaders_noBreak(_, _)
ScanHeaders_noBreak(headers, i) ==
  IF i > Len(headers) THEN [indices |-> <<>>, expandedDates |-> NoExpansions]
  ELSE
    LET header == headers[i]
        normalizedHeader == NormalizeHeader(header)
        rest == ScanHeaders_noBreak(headers, i + 1)
        weekRange == parseWeekRange(normalizedHeader)
    IN IF header = "" \/ normalizedHeader = "" THEN rest
       ELSE IF isValidDateHeader(normalizedHeader)
       THEN [indices |-> <<i>> \o rest.indices,
             expandedDates |-> IF weekRange.some
                               THEN (i :> weekRange.val) @@ rest.expandedDates
                               ELSE rest.expandedDates]
       ELSE rest

\* the loop of findDateIndices from column i on
RECURSIVE ScanHeaders(_, _)
ScanHeaders(headers, i) ==
  IF i > Len(headers) THEN [indices |-> <<>>, expandedDates |-> NoExpansions]
  ELSE
    LET header == headers[i]
        normalizedHeader == NormalizeHeader(header)
        rest == ScanHeaders(headers, i + 1)
        weekRange == parseWeekRange(normalizedHeader)
    IN IF header = "" \/ normalizedHeader = "" THEN rest
       ELSE IF isValidDateHeader(normalizedHeader)
       THEN [indices |-> <<i>> \o rest.indices,
             expandedDates |-> IF weekRange.some
                               THEN (i :> weekRange.val) @@ rest.expandedDates
                               ELSE rest.expandedDates]
       ELSE [indices |-> <<>>, expandedDates |-> NoExpansions]

\* the scan starting at the first column instead of right of the category
findDateIndices_fromStart(headers, categoryIndex) == ScanHeaders(headers, 1)

findDateIndices(headers, categoryIndex) == ScanHeaders(headers, categoryIndex + 1)

\* row.some(cell => cell && cell.toString().trim() !== '')
RowIsNonEmpty(row) ==
  \E i \in 1..Len(row) :
    /\ IF row[i].t = "n" THEN row[i].n # 0 ELSE row[i].s # ""
    /\ Trim(CellToString(row[i])) # ""

\* Array.prototype.filter
RECURSIVE FilterRows(_)
FilterRows(rows) ==
  IF Len(rows) = 0 THEN <<>>
  ELSE (IF RowIsNonEmpty(Head(rows)) THEN <<Head(rows)>> ELSE <<>>) \o FilterRows(Tail(rows))

NoSchema == [headers |-> <<>>, data |-> <<>>, categoryIndex |-> NotFound,
             dateIndices |-> <<>>, expandedDates |-> NoExpansions]

Failure(e) == [error |-> e, schema |-> NoSchema]

\* the multi-entity counterparts (ParsedDataMulti)
NoSchemaMulti == [headers |-> <<>>, data |-> <<>>, entityIdIndex |-> NotFound,
                  currencyIndex |-> NotFound, categoryIndex |-> NotFound,
                  dateIndices |-> <<>>]

FailureMulti(e) == [error |-> e, schema |-> NoSchemaMulti]

parseArrayData(data) ==
  IF Len(data) = 0 THEN Failure("EmptyFile")
  ELSE
    LET headers == [i \in 1..Len(data[1]) |-> ConvertHeader(data[1][i])]
        categoryIndex == findCategoryIndex(headers)
        found == findDateIndices(headers, categoryIndex)
        nonEmptyRows == FilterRows(Tail(data))
    IN IF categoryIndex = NotFound THEN Failure("MissingCategoryColumn")
       ELSE IF Len(found.indices) = 0 THEN Failure("NoDateColumns")
       ELSE IF Len(nonEmptyRows) = 0 THEN Failure("EmptyDataset")
       ELSE [error |-> "",
             schema |-> [headers |-> headers,
                         data |-> [r \in 1..Len(nonEmptyRows) |->
                                     [c \in 1..Len(nonEmptyRows[r]) |->
                                        CellToString(nonEmptyRows[r][c])]],
                         categoryIndex |-> categoryIndex,
                         dateIndices |-> found.indices,
                         expandedDates |-> found.expandedDates]]

(***************************************************************************)
(* Row Transformer                                                         *)
(***************************************************************************)
LastSegmentStart(category) ==
  IF \E i \in 1..Len(category) : Ch(category, i) = ">"
  THEN 1 + CHOOSE i \in 1..Len(category) :
             Ch(category, i) = ">" /\ \A j \in (i + 1)..Len(category) : Ch(category, j) # ">"
  ELSE 1

\* the whole category instead of its last segment
getCategoryLeaf_whole(category) == category

getCategoryLeaf(category) ==
  Trim(SubSeq(category, LastSegmentStart(category), Len(category)))

TransformedRow(currency, amount, date, parentId, description) ==
  [amount_currency |-> currency,
   amount_stringValue |-> toFixed2(amount),
   date |-> date,
   parent_id |-> parentId,
   parent_type |-> "ENTITY",
   description |-> description,
   metadata_atlar_category |-> description]

\* the first date of the expansion instead of the last
lastDate_first(expandedDatesForColumn) == expandedDatesForColumn[1]

\* expandedDatesForColumn[expandedDatesForColumn.length - 1]  (parsers.ts:507)
lastDate(expandedDatesForColumn) == expandedDatesForColumn[Len(expandedDatesForColumn)]

\* the inner loop leaving the row at the first cell that is no amount
RECURSIVE TransformColumns_break(_, _, _, _, _)
TransformColumns_break(parsedData, opts, row, description, k) ==
  IF k > Len(parsedData.dateIndices) THEN <<>>
  ELSE
    LET dateIndex == parsedData.dateIndices[k]
        parsedAmount == parseAmount(CellAt(row, dateIndex))
        hasExpansion == /\ dateIndex \in DOMAIN parsedData.expandedDates
                        /\ Len(parsedData.expandedDates[dateIndex]) > 0
        parsedDate == parseDate(parsedData.headers[dateIndex])
        rest == TransformColumns_break(parsedData, opts, row, description, k + 1)
    IN IF ~parsedAmount.some THEN <<>>
       ELSE IF hasExpansion
       THEN <<TransformedRow(opts.currency, parsedAmount.val,
                             lastDate(parsedData.expandedDates[dateIndex]),
                             opts.parentId, description)>> \o rest
       ELSE IF parsedDate.some /\ parsedDate.val # ""
       THEN <<TransformedRow(opts.currency, parsedAmount.val, parsedDate.val,
                             opts.parentId, description)>> \o rest
       ELSE rest

\* the inner loop of transformData over parsedData.dateIndices[k..]
RECURSIVE TransformColumns(_, _, _, _, _)
TransformColumns(parsedData, opts, row, description, k) ==
  IF k > Len(parsedData.dateIndices) THEN <<>>
  ELSE
    LET dateIndex == parsedData.dateIndices[k]
        parsedAmount == parseAmount(CellAt(row, dateIndex))
        hasExpansion == /\ dateIndex \in DOMAIN parsedData.expandedDates
                        /\ Len(parsedData.expandedDates[dateIndex]) > 0
        expandedDatesForColumn == parsedData.expandedDates[dateIndex]
        parsedDate == parseDate(parsedData.headers[dateIndex])
        rest == TransformColumns(parsedData, opts, row, description, k + 1)
    IN IF ~parsedAmount.some THEN rest
       ELSE IF hasExpansion
       THEN <<TransformedRow(opts.currency, parsedAmount.val,
                             lastDate(expandedDatesForColumn),
                             opts.parentId, description)>> \o rest
       ELSE IF parsedDate.some /\ parsedDate.val # ""
       THEN <<TransformedRow(opts.currency, parsedAmount.val, parsedDate.val,
                             opts.parentId, description)>> \o rest
       ELSE rest

\* the outer loop of transformData over parsedData.data[r..]
RECURSIVE TransformRows(_, _, _)
TransformRows(parsedData, opts, r) ==
  IF r > Len(parsedData.data) THEN <<>>
  ELSE
    LET row == parsedData.data[r]
        cell == CellAt(row, parsedData.categoryIndex)
        category == IF cell.defined THEN Trim(cell.s) ELSE ""
        rest == TransformRows(parsedData, opts, r + 1)
    IN IF category = "" THEN rest
       ELSE TransformColumns(parsedData, opts, row, getCategoryLeaf(category), 1) \o rest

\* the loop over the rows starting at the second row
transformData_fromSecondRow(parsedData, opts) == TransformRows(parsedData, opts, 2)

transformData(parsedData, opts) == TransformRows(parsedData, opts, 1)


(***************************************************************************)
(* Serializers: the records as comma-separated text and as worksheet rows  *)
(***************************************************************************)
\* Array.prototype.join
RECURSIVE Join(_, _)
Join(parts, separator) ==
  IF Len(parts) = 0 THEN ""
  ELSE IF Len(parts) = 1 THEN parts[1]
  ELSE parts[1] \o separator \o Join(Tail(parts), separator)

\* Object.keys of a record: the keys in the order the transforms write them
ColumnNames == <<"amount.currency", "amount.stringValue", "date", "parent.id",
                 "parent.type", "description", "metadata.atlar.category">>

\* parseDate(String(row['date'])) || String(row['date'])
NormalizedDateOf(date, reparsed) ==
  IF reparsed.some /\ reparsed.val # "" THEN reparsed.val ELSE date

\* the values of a line with parent id and description exchanged
CsvValues_swapped(row) ==
  <<row.amount_currency, row.amount_stringValue,
    NormalizedDateOf(row.date, parseDate(row.date)),
    row.description, row.parent_type, row.parent_id,
    row.metadata_atlar_category>>

\* the values of the line of one record
CsvValues(row) ==
  <<row.amount_currency, row.amount_stringValue,
    NormalizedDateOf(row.date, parseDate(row.date)),
    row.parent_id, row.parent_type, row.description,
    row.metadata_atlar_category>>

\* the line of one record
CsvLine(row) == Join(CsvValues(row), ",")

generateCSV(data) ==
  IF Len(data) = 0 THEN ""
  ELSE Join(<<Join(ColumnNames, ",")>> \o [i \in 1..Len(data) |-> CsvLine(data[i])], "\n")

\* the row generateExcel places in the worksheet for one record
ExcelRow(row) ==
  <<row.amount_currency, row.amount_stringValue, row.date, row.parent_id,
    row.parent_type, row.description, row.metadata_atlar_category>>

\* the worksheetData of generateExcel, the array of arrays handed to
\* aoa_to_sheet; no row at all stands for the empty ArrayBuffer
generateExcel(data) ==
  IF Len(data) = 0 THEN <<>>
  ELSE <<ColumnNames>> \o [i \in 1..Len(data) |-> ExcelRow(data[i])]

(***************************************************************************)
(* Inputs                                                                  *)
(***************************************************************************)
\* number of header columns to the right of the category column
NumDateCols == 3
\* number of rows below the header row
MaxRows == 2

\* raw header cells to the right of the category column
HeaderCells ==
  { Str("2025-01-01"), Str("  "), Str("Notes"),
    Str("Oct 27 ~ Nov  2"), Str("Nov 9-3"), Str("0"), Num(80000) }

\* raw data rows below the header row (columns: id, category, amounts)
DataRows ==
  { <<Str("E1"), Str(" Marketing> Ads "), Str("100,50"), Str("abc"), Num(7)>>,
    <<Str("E3"), Str(" "), Str("5"), Str(""), Str("5")>> }

RECURSIVE SeqsOfLen(_, _)
SeqsOfLen(S, n) ==
  IF n = 0 THEN {<<>>}
  ELSE {<<x>> \o t : x \in S, t \in SeqsOfLen(S, n - 1)}

SeqsUpTo(S, n) == UNION {SeqsOfLen(S, k) : k \in 0..n}

HeaderRows == {<<Str("Id"), Str(" Category")>> \o hs : hs \in SeqsOfLen(HeaderCells, NumDateCols)}

RegularGrids == {<<h>> \o rows : h \in HeaderRows, rows \in SeqsUpTo(DataRows, MaxRows)}

\* header rows of the grids below
DatedHeader == <<Str("Id"), Str("Category"), Str("2025-01-01")>>
MixedHeader == <<Str("Id"), Str("CATEGORY "), Str("2025-01-01"), Str("0"), Str("2025-01-03")>>

\* grids at the edges of the parser and of the transformer: no rows at all, no
\* header cell, no category header, rows of blank cells, rows whose only
\* content is the number 0, rows shorter than the header row, categories
\* with and without '>'
EdgeGrids ==
  { <<>>,
    << <<>> >>,
    << <<>>, <<Str("E1"), Str("Ops"), Str("5")>> >>,
    << <<Str("Id"), Str("Categories"), Str("2025-01-01")>>, <<Str("E1"), Str("Ops"), Str("5")>> >>,
    << <<Str("Id"), Str("Categories"), Str("Notes")>> >>,
    << <<Str("Category")>>, <<Str("Ops")>> >>,
    << DatedHeader, <<Str(""), Str(" "), Str("")>>, <<>>, <<Str(Tab)>> >>,
    << DatedHeader, <<Str(""), Str(""), Num(0)>> >>,
    << DatedHeader, <<Num(0), Str(" "), Num(0)>>, <<Str(""), Str(""), Str("")>> >>,
    << DatedHeader, <<Str(""), Str(""), Str("0")>> >>,
    << DatedHeader, <<Str(""), Str(""), Str("")>>, <<Str("E1"), Str("Ops"), Num(5)>> >>,
    << DatedHeader, <<Str(""), Str(""), Num(0)>>, <<Str("E1"), Str("Ops"), Num(5)>> >>,
    << <<Str("2025-01-05"), Str("Category"), Str("2025-01-01")>>,
       <<Str("9"), Str("Ops"), Str("5")>> >>,
    << <<Str("Id"), Str("Category"), Str("Feb 30"), Str("2025-13-01"), Str("3000000")>>,
       <<Str("E1"), Str("Ops"), Str("1"), Str("2"), Str("3")>> >>,
    << DatedHeader, <<Str("E1"), Str("Ops"), Str("5")>>,
                    <<Str("E2"), Str("A>B> C "), Str("1,5")>>,
                    <<Str("E3"), Str("A>"), Str("2")>>,
                    <<Str("E4"), Str(">"), Str("3")>> >>,
    << MixedHeader, <<Str("E1"), Str("Ops"), Str("5")>>,
                    <<Str("E2"), Str(" "), Str("5"), Str("5"), Str("5")>>,
                    <<Str("E3")>>,
                    <<Str("E4"), Str("R&D > Hosting"), Str("abc"), Str("7"), Str("8")>> >> }

Grids == RegularGrids \cup EdgeGrids

OptionSet == { [currency |-> "SEK", parentId |-> "ENTITY_ID"],
               [currency |-> "EUR", parentId |-> "E-2"] }

NoOptions == [currency |-> "", parentId |-> ""]
NotParsed == Failure("NotParsed")
NoInput == Str("")
NoOutput == [op |-> "", header |-> "", valid |-> FALSE, date |-> NullString,
             dates |-> NullList, amount |-> NullNumber, text |-> "",
             sheet |-> <<>>, made |-> {}]

\* page.tsx and FileUpload.tsx: the React state of the upload wizard
wizard == <<page, fileUpload, pending>>
pipeline == <<host, grid, options, parsed, result, pc, input, output>>

NoFile == [name |-> "", rows |-> <<>>]
NullFile == [some |-> FALSE, val |-> NoFile]
NullData == [some |-> FALSE, val |-> NoSchema]
NullDataMulti == [some |-> FALSE, val |-> NoSchemaMulti]

\* the useState initial values of Home
NoPage == [activeTab |-> "single", currentStep |-> 1, selectedFile |-> NullFile,
           parsedData |-> NullData, parsedDataMulti |-> NullDataMulti,
           transformedData |-> <<>>, error |-> "", isProcessing |-> FALSE,
           currency |-> "SEK", parentId |-> "ENTITY_ID"]
\* the useState initial value of FileUpload
NoUpload == [selectedFile |-> NullFile]

WizardIdle ==
  /\ page = NoPage
  /\ fileUpload = NoUpload
  /\ pending = <<>>

(***************************************************************************)
(* The file pipeline: a decoded grid is parsed, then transformed           *)
(***************************************************************************)
Init ==
  /\ host \in Hosts
  /\ grid \in Grids
  /\ options = NoOptions
  /\ parsed = NotParsed
  /\ result = <<>>
  /\ pc = "decoded"
  /\ input = NoInput
  /\ output = NoOutput
  /\ WizardIdle

\* parseExcel / parseCSV hand the decoded grid to parseArrayData
ParseArrayData ==
  /\ pc = "decoded"
  /\ parsed' = parseArrayData(grid)
  /\ pc' = IF parsed'.error = "" THEN "parsed" ELSE "failed"
  /\ UNCHANGED <<host, grid, options, result, input, output, wizard>>

\* handleTransform calls transformData on the parsed schema
TransformData ==
  /\ pc = "parsed"
  /\ \E opts \in OptionSet :
       /\ options' = opts
       /\ result' = transformData(parsed.schema, opts)
  /\ pc' = "transformed"
  /\ UNCHANGED <<host, grid, parsed, input, output, wizard>>

\* generateCSV on the records of the transform
GenerateCSV ==
  /\ pc \in {"transformed", "downloaded"}
  /\ output' = [output EXCEPT !.text = generateCSV(result), !.made = @ \cup {"csv"}]
  /\ pc' = "downloaded"
  /\ UNCHANGED <<host, grid, options, parsed, result, input, wizard>>

\* generateExcel on the records of the transform
GenerateExcel ==
  /\ pc \in {"transformed", "downloaded"}
  /\ output' = [output EXCEPT !.sheet = generateExcel(result), !.made = @ \cup {"xlsx"}]
  /\ pc' = "downloaded"
  /\ UNCHANGED <<host, grid, options, parsed, result, input, wizard>>

Next == ParseArrayData \/ TransformData \/ GenerateCSV \/ GenerateExcel

Spec == Init /\ [][Next]_vars

(***************************************************************************)
(* The resolvers on their own: one header cell is classified and resolved  *)
(***************************************************************************)
\* largest day number written in a generated header
MaxDay == 32

TitleCase(k) == UpperCh(Ch(k, 1)) \o SubSeq(k, 2, Len(k))

\* the spellings of the month abbreviations
MonthForms == UNION {{k, TitleCase(k), ToUpperCase(k)} : k \in MonthKeys}

DayTexts(d) == {NatToString(d), PadStart2(NatToString(d))}

MonthDayInputs ==
  {m \o " " \o t : m \in MonthForms, t \in UNION {DayTexts(d) : d \in 0..MaxDay}}

\* the ends of the generated week ranges
RangeMonthPairs ==
  { <<"Oct", "Nov">>, <<"okt", "OKT">>, <<"Jan", "jan">>, <<"Feb", "Mar">>,
    <<"Dec", "Jan">>, <<"Nov", "Oct">>, <<"Sep", "Sep">>, <<"DEC", "Dec">> }
RangeDays == {0, 1, 3, 7, 9, 13, 27, 28, 31, MaxDay}
RangeDashes == {" - ", "-", " " \o EnDash \o "  "}

RangeInputs ==
  {p[1] \o " " \o NatToString(d1) \o dash \o p[2] \o " " \o NatToString(d2) :
     p \in RangeMonthPairs, d1 \in RangeDays, d2 \in RangeDays, dash \in {" - ", EmDash}}
  \cup
  {p[1] \o " " \o NatToString(d1) \o dash \o NatToString(d2) :
     p \in RangeMonthPairs, d1 \in RangeDays, d2 \in RangeDays, dash \in RangeDashes}

SlashNumbers == {0, 1, 2, 4, 12, 13, 29, 30, 31, MaxDay}
SlashYears == {"2024", "2025"}

SlashInputs ==
  {a \o "/" \o b \o "/" \o y :
     a \in UNION {DayTexts(n) : n \in SlashNumbers},
     b \in UNION {DayTexts(n) : n \in SlashNumbers}, y \in SlashYears}

SerialInputs ==
  {"0", "00", "1", "2", "60", "45658", "045658", "73415", "73416", "2958465",
   "2958466", "6575160", "20250101", "100025569", "100025570", "999999999999"}

IsoInputs == {"2025-01-01", "2024-02-29", "2025-02-30", "2025-13-45", "0000-00-00",
              " 2025-11-02 "}

OtherInputs == {"", " ", "Notes", "Category", "1/2/25", "2025-1-1", "Oct", "Oct 123",
                "Okt 1 - 2 - 3", "12.5", "-5", "2025/01/02", "NaN-NaN-NaN", "10000-01-01"}

NumberInputs == {0, 1, 2, 45658, 73415, 73416, 80000, 2958466, 6575160, 100025570, 0 - 5}

ResolverInputs ==
  {Str(x) : x \in MonthDayInputs \cup RangeInputs \cup SlashInputs \cup SerialInputs
                    \cup IsoInputs \cup OtherInputs}
  \cup {Num(n) : n \in NumberInputs}

InitResolver ==
  /\ host \in Hosts
  /\ input \in ResolverInputs
  /\ pc = "ready"
  /\ output = NoOutput
  /\ WizardIdle
  /\ grid = <<>>
  /\ options = NoOptions
  /\ parsed = NotParsed
  /\ result = <<>>

\* the header conversion of parseArrayData on the cell
ConvertHeaderCell ==
  /\ pc = "ready"
  /\ output' = [NoOutput EXCEPT !.op = "convertHeader", !.header = ConvertHeader(input)]
  /\ pc' = "converted"
  /\ UNCHANGED <<host, grid, options, parsed, result, input, wizard>>

\* isValidDateHeader on the normalized header, as findDateIndices calls it
ClassifyHeader ==
  /\ pc = "converted"
  /\ output' = [output EXCEPT !.op = "isValidDateHeader",
                  !.valid = isValidDateHeader(NormalizeDashes(CollapseSpaces(Trim(output.header))))]
  /\ pc' = "classified"
  /\ UNCHANGED <<host, grid, options, parsed, result, input, wizard>>

\* parseWeekRange on the normalized header, as findDateIndices calls it
ExpandWeekRange ==
  /\ pc = "converted"
  /\ output' = [output EXCEPT !.op = "parseWeekRange",
                  !.dates = parseWeekRange(NormalizeDashes(CollapseSpaces(Trim(output.header))))]
  /\ pc' = "expanded"
  /\ UNCHANGED <<host, grid, options, parsed, result, input, wizard>>

\* parseDate on the header, as transformData calls it
ResolveDate ==
  /\ pc = "converted"
  /\ output' = [output EXCEPT !.op = "parseDate", !.date = parseDate(output.header)]
  /\ pc' = "resolved"
  /\ UNCHANGED <<host, grid, options, parsed, result, input, wizard>>

\* the same cell is handed to a host, the same one or another, for a second
\* run of the call just made
RunAgain ==
  /\ pc \in {"resolved", "expanded"}
  /\ host' \in Hosts
  /\ pc' = IF pc = "resolved" THEN "resolving" ELSE "expanding"
  /\ UNCHANGED <<grid, options, parsed, result, input, output, wizard>>

\* the second run of the header conversion and of parseDate
ResolveDateAgain ==
  /\ pc = "resolving"
  /\ output' = [output EXCEPT !.header = ConvertHeader(input),
                              !.date = parseDate(ConvertHeader(input))]
  /\ pc' = "resolvedAgain"
  /\ UNCHANGED <<host, grid, options, parsed, result, input, wizard>>

\* the second run of the header conversion and of parseWeekRange
ExpandWeekRangeAgain ==
  /\ pc = "expanding"
  /\ output' = [output EXCEPT !.header = ConvertHeader(input),
                              !.dates = parseWeekRange(NormalizeHeader(ConvertHeader(input)))]
  /\ pc' = "expandedAgain"
  /\ UNCHANGED <<host, grid, options, parsed, result, input, wizard>>

\* the resolved date is passed through parseDate again, as generateCSV does
\* with the date of a record
ResolveResult ==
  /\ pc = "resolved"
  /\ output.date.some
  /\ output' = [output EXCEPT !.date = parseDate(output.date.val)]
  /\ pc' = "resolvedTwice"
  /\ UNCHANGED <<host, grid, options, parsed, result, input, wizard>>

NextResolver ==
  \/ ConvertHeaderCell \/ ClassifyHeader \/ ExpandWeekRange \/ ResolveDate
  \/ RunAgain \/ ResolveDateAgain \/ ExpandWeekRangeAgain \/ ResolveResult

SpecResolver == InitResolver /\ [][NextResolver]_vars

(***************************************************************************)
(* The Amount Resolver on its own: one data cell is parsed and rendered    *)
(***************************************************************************)
\* a cell a data row does not have
MissingCell == [t |-> "u", s |-> "", n |-> 0]

AmountSigns == {"", "-", "+"}
AmountIntegers == {"", "0", "7", "1200", "007"}
AmountFractions == {"", ".", ".5", ",50", ".005", ",995", ",5,3"}
AmountExponents == {"", "e2", "E21", "e-3", "e309"}

OtherAmounts ==
  {"", " ", Tab, "abc", "Infinity", "-Infinity", " +Infinity ", "infinity", "NaN",
   "12abc", "1 200", "1.200,50", "0x10", "1e308", "2e308", "1e-400", "-1e-400",
   "$5", ".", "-", "e5", " 100,50 ", "1e21", "-1e21", "0,004", "-0,004"}

AmountInputs ==
  {Str(s \o i \o f \o e) :
     s \in AmountSigns, i \in AmountIntegers, f \in AmountFractions, e \in AmountExponents}
  \cup {Str(x) : x \in OtherAmounts}
  \cup {MissingCell}

\* row[dateIndex] of a data row
AmountCell(cell) == IF cell.t = "u" THEN Undefined ELSE Defined(cell.s)

InitAmount ==
  /\ host \in Hosts
  /\ input \in AmountInputs
  /\ pc = "cell"
  /\ output = NoOutput
  /\ WizardIdle
  /\ grid = <<>>
  /\ options = NoOptions
  /\ parsed = NotParsed
  /\ result = <<>>

\* parseAmount on the cell, as transformData and transformDataMulti call it
ParseAmount ==
  /\ pc = "cell"
  /\ output' = [NoOutput EXCEPT !.op = "parseAmount", !.amount = parseAmount(AmountCell(input))]
  /\ pc' = "amountParsed"
  /\ UNCHANGED <<host, grid, options, parsed, result, input, wizard>>

\* parsedAmount.toFixed(2) of a non-null amount, as the record's amount.stringValue
FormatAmount ==
  /\ pc = "amountParsed"
  /\ output.amount.some
  /\ output' = [output EXCEPT !.op = "toFixed", !.text = toFixed2(output.amount.val)]
  /\ pc' = "formatted"
  /\ UNCHANGED <<host, grid, options, parsed, result, input, wizard>>

NextAmount == ParseAmount \/ FormatAmount

SpecAmount == InitAmount /\ [][NextAmount]_vars

(***************************************************************************)
(* Multi-entity mode: the grid names the entity and the currency of every  *)
(* row; the records are then written out as comma-separated text           *)
(***************************************************************************)
\* lower.findIndex(h => h === a || h === b || h === c), lower being the
\* headers lower-cased and trimmed
FindLabelIndex(headers, labels) ==
  IF \E i \in 1..Len(headers) : Trim(ToLowerCase(headers[i])) \in labels
  THEN CHOOSE i \in 1..Len(headers) :
         /\ Trim(ToLowerCase(headers[i])) \in labels
         /\ \A j \in 1..(i - 1) : Trim(ToLowerCase(headers[j])) \notin labels
  ELSE NotFound

EntityIdLabels == {"entity id", "entity_id", "parent.id"}
CurrencyLabels == {"currency", "amount.currency"}

\* the checks of parseArrayDataMulti once the header row is converted; the
\* two errors named Missing...IdColumn and MissingCurrencyColumn are the
\* MissingRequiredColumn errors
SchemaMultiOf(headers, rows, entityIdIndex, currencyIndex, categoryIndex) ==
  IF entityIdIndex = NotFound THEN FailureMulti("MissingEntityIdColumn")
  ELSE IF currencyIndex = NotFound THEN FailureMulti("MissingCurrencyColumn")
  ELSE IF categoryIndex = NotFound THEN FailureMulti("MissingCategoryColumn")
  ELSE IF Len(findDateIndices(headers, categoryIndex).indices) = 0
  THEN FailureMulti("NoDateColumns")
  ELSE IF Len(FilterRows(rows)) = 0 THEN FailureMulti("EmptyDataset")
  ELSE [error |-> "",
        schema |-> [headers |-> headers,
                    data |-> [r \in 1..Len(FilterRows(rows)) |->
                                [c \in 1..Len(FilterRows(rows)[r]) |->
                                   CellToString(FilterRows(rows)[r][c])]],
                    entityIdIndex |-> entityIdIndex,
                    currencyIndex |-> currencyIndex,
                    categoryIndex |-> categoryIndex,
                    dateIndices |-> findDateIndices(headers, categoryIndex).indices]]

HeadersMultiOf(headers, rows) ==
  SchemaMultiOf(headers, rows, FindLabelIndex(headers, EntityIdLabels),
                FindLabelIndex(headers, CurrencyLabels),
                FindLabelIndex(headers, {"category"}))

parseArrayDataMulti(data) ==
  IF Len(data) = 0 THEN FailureMulti("EmptyFile")
  ELSE HeadersMultiOf([i \in 1..Len(data[1]) |-> ConvertHeader(data[1][i])], Tail(data))

\* the cell as it is, neither upper-cased nor trimmed
TrimmedUpper_raw(cell) == IF cell.defined THEN cell.s ELSE ""

\* row[i]?.toUpperCase()?.trim(), "" standing for undefined as well
TrimmedUpper(cell) == IF cell.defined THEN Trim(ToUpperCase(cell.s)) ELSE ""

\* row[i]?.trim(), "" standing for undefined as well
TrimmedCell(cell) == IF cell.defined THEN Trim(cell.s) ELSE ""

\* the body of the inner loop of transformDataMulti
RecordMulti(parsedDate, parsedAmount, currency, parentId, description) ==
  IF parsedDate.some /\ parsedDate.val # "" /\ parsedAmount.some
  THEN <<TransformedRow(currency, parsedAmount.val, parsedDate.val, parentId, description)>>
  ELSE <<>>

\* the inner loop of transformDataMulti over parsed.dateIndices[k..]
RECURSIVE TransformColumnsMulti(_, _, _, _, _, _)
TransformColumnsMulti(parsedData, row, currency, parentId, description, k) ==
  IF k > Len(parsedData.dateIndices) THEN <<>>
  ELSE RecordMulti(parseDate(parsedData.headers[parsedData.dateIndices[k]]),
                   parseAmount(CellAt(row, parsedData.dateIndices[k])),
                   currency, parentId, description)
         \o TransformColumnsMulti(parsedData, row, currency, parentId, description, k + 1)

\* one pass of the outer loop of transformDataMulti
TransformRowMulti(parsedData, row, category, currency, parentId) ==
  IF category = "" THEN <<>>
  ELSE IF currency = "" \/ parentId = "" THEN <<>>
  ELSE TransformColumnsMulti(parsedData, row, currency, parentId,
                             getCategoryLeaf(category), 1)

\* the outer loop of transformDataMulti over parsed.data[r..]
RECURSIVE TransformRowsMulti(_, _)
TransformRowsMulti(parsedData, r) ==
  IF r > Len(parsedData.data) THEN <<>>
  ELSE TransformRowMulti(parsedData, parsedData.data[r],
                         TrimmedCell(CellAt(parsedData.data[r], parsedData.categoryIndex)),
                         TrimmedUpper(CellAt(parsedData.data[r], parsedData.currencyIndex)),
                         TrimmedCell(CellAt(parsedData.data[r], parsedData.entityIdIndex)))
         \o TransformRowsMulti(parsedData, r + 1)

transformDataMulti(parsedData) == TransformRowsMulti(parsedData, 1)

\* header labels of the entity column, the currency column and the category
\* column
EntityHeaders == {"Entity ID", " entity_id ", "PARENT.ID", "EntityID", "Entity  ID", "Id"}
CurrencyHeaders == {"Currency", " Amount.Currency", "amount_currency", "Curr"}
CategoryHeaders == {"Category", "Categories"}

\* the headers right of the category column: days, a week range, a slash
\* date, a label
DateHeaderPairs ==
  { <<Str("2025-01-01"), Str("2025-01-02")>>,
    <<Str("2025-01-01"), Str("Oct 27 - Nov 2")>>,
    <<Str("01/02/2025"), Num(45000)>>,
    <<Str("Notes"), Str("2025-01-01")>> }

HeaderRowsMulti ==
  { <<Str(e), Str(c), Str("Category")>> \o d :
      e \in EntityHeaders, c \in CurrencyHeaders, d \in {<<Str("2025-01-01"), Str("2025-01-02")>>} }
  \cup
  { <<Str("Entity ID"), Str("Currency"), Str(c)>> \o d :
      c \in CategoryHeaders, d \in DateHeaderPairs }
  \cup
  { <<Str("Category"), Str("2025-01-01"), Str("Currency"), Str("parent.id")>>,
    <<Str("Category"), Str("2025-01-01")>> }

\* rows of one entity and currency, a row in lower case with padding, rows
\* without currency, entity or category, commas inside cells, a short row
DataRowsMulti ==
  { <<Str("E1"), Str("EUR"), Str("Ops"), Str("5"), Str("6,50")>>,
    <<Str("E1"), Str("EUR"), Str("A > B"), Num(7), Str("abc")>>,
    <<Str(" e2 "), Str(" usd "), Str("Ops"), Str("1"), Str("2")>>,
    <<Str("E3"), Str(""), Str("Ops"), Str("1"), Str("2")>>,
    <<Str("  "), Str("SEK"), Str("Ops"), Str("1"), Str("2")>>,
    <<Str("E,5"), Str("EUR"), Str("Ops, Travel"), Str("1e21"), Str("3")>>,
    <<Str("E6"), Str("EUR"), Str(" "), Str("1"), Str("2")>>,
    <<Str("E7"), Str("EUR")>>,
    <<Str(""), Str(""), Str(""), Str(""), Str("")>> }

GridsMulti ==
  { <<h>> \o rows : h \in HeaderRowsMulti, rows \in SeqsUpTo(DataRowsMulti, MaxRows) }
  \cup {<<>>}

InitMulti ==
  /\ host \in Hosts
  /\ grid \in GridsMulti
  /\ options = NoOptions
  /\ parsed = FailureMulti("NotParsed")
  /\ result = <<>>
  /\ pc = "decoded"
  /\ input = NoInput
  /\ output = NoOutput
  /\ WizardIdle

\* parseExcelAsMulti / parseCSVMulti hand the decoded grid to
\* parseArrayDataMulti
ParseArrayDataMulti ==
  /\ pc = "decoded"
  /\ parsed' = parseArrayDataMulti(grid)
  /\ pc' = IF parsed'.error = "" THEN "parsed" ELSE "failed"
  /\ UNCHANGED <<host, grid, options, result, input, output, wizard>>

\* handleTransform in the multi tab
TransformDataMulti ==
  /\ pc = "parsed"
  /\ result' = transformDataMulti(parsed.schema)
  /\ pc' = "transformed"
  /\ UNCHANGED <<host, grid, options, parsed, input, output, wizard>>

NextMulti ==
  \/ ParseArrayDataMulti \/ TransformDataMulti \/ GenerateCSV \/ GenerateExcel

SpecMulti == InitMulti /\ [][NextMulti]_vars

(***************************************************************************)
(* The upload wizard: FileUpload.tsx and the Home page of page.tsx         *)
(***************************************************************************)
\* String.prototype.endsWith
EndsWith(s, suffix) ==
  /\ Len(s) >= Len(suffix)
  /\ SubSeq(s, Len(s) - Len(suffix) + 1, Len(s)) = suffix

\* index of the last '.' of s, 0 when there is none
LastDot(s) ==
  IF \E i \in 1..Len(s) : Ch(s, i) = "."
  THEN CHOOSE i \in 1..Len(s) :
         /\ Ch(s, i) = "."
         /\ \A k \in (i + 1)..Len(s) : Ch(s, k) # "."
  ELSE 0

\* '.' + file.name.split('.').pop()?.toLowerCase()
FileExtension(name) ==
  LET dot == LastDot(name)
  IN "." \o (IF dot = Len(name) THEN ""
             ELSE ToLowerCase(SubSeq(name, dot + 1, Len(name))))

acceptedTypes == {".csv", ".xlsx", ".xls"}

\* FileUpload.validateFile; the files of the model are all below maxSize
validateFile(file) == FileExtension(file.name) \in acceptedTypes

\* the file is read as a workbook (readAsArrayBuffer) rather than as text
IsWorkbook(name) == EndsWith(name, ".xlsx") \/ EndsWith(name, ".xls")

\* the rejection of parseFile and parseFileMulti before any parsing, "" when
\* the file is handed to parseExcel or parseCSV: an empty text is falsy and
\* fails the read before the extension is looked at
FileError(file) ==
  IF IsWorkbook(file.name) THEN ""
  ELSE IF file.rows = <<>> THEN "ReadFailed"
  ELSE IF EndsWith(file.name, ".csv") THEN ""
  ELSE "UnsupportedFormat"

\* parseFile: the promise settles with the schema, or rejects with an error
parseFile(file) ==
  IF FileError(file) = "" THEN parseArrayData(file.rows)
  ELSE Failure(FileError(file))

parseFileMulti(file) ==
  IF FileError(file) = "" THEN parseArrayDataMulti(file.rows)
  ELSE FailureMulti(FileError(file))

\* the files a user picks: a single-entity sheet, a multi-entity workbook,
\* the single-entity sheet under an upper-case name, a sheet without a
\* category column, an empty sheet and a text file
SingleRows == << <<Str("Id"), Str("Category"), Str("2025-01-01")>>,
                 <<Str("E1"), Str("Ops"), Str("5")>> >>
MultiRows == << <<Str("Entity ID"), Str("Currency"), Str("Category"), Str("2025-01-01")>>,
                <<Str("E1"), Str("sek"), Str("Ops"), Num(5)>> >>
WizardFiles ==
  { [name |-> "a.csv", rows |-> SingleRows],
    [name |-> "b.xlsx", rows |-> MultiRows],
    [name |-> "C.CSV", rows |-> SingleRows],
    [name |-> "bad.csv", rows |-> << <<Str("Id"), Str("Name"), Str("2025-01-01")>>,
                                      <<Str("E1"), Str("Ops"), Str("5")>> >>],
    [name |-> "empty.csv", rows |-> <<>>],
    [name |-> "notes.txt", rows |-> SingleRows] }

Tabs == {"single", "multi"}

\* parses that may be in flight at once
MaxPending == 2

InitWizard ==
  /\ host \in Hosts
  /\ grid = <<>>
  /\ options = NoOptions
  /\ parsed = NotParsed
  /\ result = <<>>
  /\ pc = "wizard"
  /\ input = NoInput
  /\ output = NoOutput
  /\ WizardIdle

\* FileUpload is rendered at step 1 only: leaving step 1 unmounts it and its
\* state is the initial one when it is rendered again
FileUploadAt(step) == IF step = 1 THEN fileUpload ELSE NoUpload

\* the Continue button of step 1 is rendered
ContinueShown ==
  /\ page.currentStep = 1
  /\ page.selectedFile.some
  /\ \/ page.activeTab = "single" /\ page.parsedData.some
     \/ page.activeTab = "multi" /\ page.parsedDataMulti.some

\* FileUpload.handleFile on a dropped or chosen file, which calls
\* handleFileSelect up to its await; the drop zone is rendered while the
\* widget holds no file.  The parse is in flight with the tab of the closure.
HandleFile ==
  /\ pc = "wizard"
  /\ page.currentStep = 1
  /\ ~fileUpload.selectedFile.some
  /\ \E file \in WizardFiles :
       IF validateFile(file)
       THEN /\ Len(pending) < MaxPending
            /\ fileUpload' = [selectedFile |-> Some(file)]
            /\ page' = [page EXCEPT !.selectedFile = Some(file), !.error = "",
                                    !.isProcessing = TRUE]
            /\ pending' = Append(pending, [file |-> file, tab |-> page.activeTab])
       ELSE /\ page' = [page EXCEPT !.error = "InvalidFileType"]
            /\ UNCHANGED <<fileUpload, pending>>
  /\ UNCHANGED pipeline

\* FileUpload.removeFile: the widget forgets its file, the page is not told
RemoveFile ==
  /\ pc = "wizard"
  /\ page.currentStep = 1
  /\ fileUpload.selectedFile.some
  /\ fileUpload' = NoUpload
  /\ UNCHANGED <<page, pending>>
  /\ UNCHANGED pipeline

Without(s, i) == SubSeq(s, 1, i - 1) \o SubSeq(s, i + 1, Len(s))

\* the state handleFileSelect sets after its await, single tab: the try
\* branch on a schema, the catch branch on a rejection
AfterParseFile(data) ==
  IF data.error = ""
  THEN [page EXCEPT !.parsedData = Some(data.schema),
                    !.parsedDataMulti = NullDataMulti,
                    !.error = "", !.isProcessing = FALSE]
  ELSE [page EXCEPT !.error = data.error, !.parsedData = NullData,
                    !.parsedDataMulti = NullDataMulti, !.isProcessing = FALSE]

\* the same, multi tab
AfterParseFileMulti(data) ==
  IF data.error = ""
  THEN [page EXCEPT !.parsedDataMulti = Some(data.schema),
                    !.parsedData = NullData,
                    !.error = "", !.isProcessing = FALSE]
  ELSE [page EXCEPT !.error = data.error, !.parsedData = NullData,
                    !.parsedDataMulti = NullDataMulti, !.isProcessing = FALSE]

\* the rest of handleFileSelect, once the promise of one of the parses in
\* flight settles; the parses settle in any order
HandleFileSelectSettles ==
  /\ pc = "wizard"
  /\ \E i \in 1..Len(pending) :
       /\ pending' = Without(pending, i)
       /\ page' = IF pending[i].tab = "multi"
                  THEN AfterParseFileMulti(parseFileMulti(pending[i].file))
                  ELSE AfterParseFile(parseFile(pending[i].file))
  /\ UNCHANGED fileUpload
  /\ UNCHANGED pipeline

\* handleContinue, from the Continue button
HandleContinue ==
  /\ pc = "wizard"
  /\ ContinueShown
  /\ IF ~page.selectedFile.some THEN UNCHANGED <<page, fileUpload>>
     ELSE IF page.activeTab = "multi" \/ page.parsedData.some
     THEN /\ page' = [page EXCEPT !.currentStep = 2]
          /\ fileUpload' = FileUploadAt(2)
     ELSE UNCHANGED <<page, fileUpload>>
  /\ UNCHANGED pending
  /\ UNCHANGED pipeline

\* the Back button of step 2
Back ==
  /\ pc = "wizard"
  /\ page.currentStep = 2
  /\ page' = [page EXCEPT !.currentStep = 1]
  /\ UNCHANGED <<fileUpload, pending>>
  /\ UNCHANGED pipeline

\* handleTransform, from the Transform button of step 2
HandleTransform ==
  /\ pc = "wizard"
  /\ page.currentStep = 2
  /\ IF page.activeTab = "multi"
     THEN IF ~page.parsedDataMulti.some THEN UNCHANGED page
          ELSE page' = [page EXCEPT
                 !.transformedData = transformDataMulti(page.parsedDataMulti.val),
                 !.error = "", !.currentStep = 3]
     ELSE IF ~page.parsedData.some THEN UNCHANGED page
          ELSE page' = [page EXCEPT
                 !.transformedData =
                    transformData(page.parsedData.val,
                                  [currency |-> ToUpperCase(page.currency),
                                   parentId |-> page.parentId]),
                 !.error = "", !.currentStep = 3]
  /\ UNCHANGED <<fileUpload, pending>>
  /\ UNCHANGED pipeline

\* reset, from the button of step 3; parsedDataMulti is not among the state
\* it clears
Reset ==
  /\ pc = "wizard"
  /\ page.currentStep = 3
  /\ page' = [page EXCEPT !.currentStep = 1, !.selectedFile = NullFile,
                          !.parsedData = NullData, !.transformedData = <<>>,
                          !.error = ""]
  /\ UNCHANGED <<fileUpload, pending>>
  /\ UNCHANGED pipeline

\* the two tab buttons
SelectTab ==
  /\ pc = "wizard"
  /\ \E tab \in Tabs :
       page' = [page EXCEPT !.activeTab = tab, !.currentStep = 1,
                            !.selectedFile = NullFile, !.parsedData = NullData,
                            !.parsedDataMulti = NullDataMulti,
                            !.transformedData = <<>>, !.error = ""]
  /\ fileUpload' = FileUploadAt(page.currentStep)
  /\ UNCHANGED pending
  /\ UNCHANGED pipeline

NextWizard ==
  \/ HandleFile
  \/ RemoveFile
  \/ HandleFileSelectSettles
  \/ HandleContinue
  \/ Back
  \/ HandleTransform
  \/ Reset
  \/ SelectTab

SpecWizard == InitWizard /\ [][NextWizard]_vars

(***************************************************************************)
(* Properties of the file pipeline (specification Spec)                    *)
(***************************************************************************)
Schema == parsed.schema

\* the header row as parseArrayData converts it
ConvertedHeaders == [i \in 1..Len(grid[1]) |-> ConvertHeader(grid[1][i])]

Normalized(h) == NormalizeHeader(h)

\* the set of the elements of a sequence
Range(seq) == {seq[i] : i \in 1..Len(seq)}

\* the category of data row r, trimmed ("" when the row has no such cell)
RowCategory(r) ==
  IF Schema.categoryIndex <= Len(Schema.data[r])
  THEN Trim(Schema.data[r][Schema.categoryIndex]) ELSE ""

\* the amount cell of data row r under the k-th date column
AmountOf(r, k) == parseAmount(CellAt(Schema.data[r], Schema.dateIndices[k]))

IsWeekRangeColumn(k) ==
  /\ Schema.dateIndices[k] \in DOMAIN Schema.expandedDates
  /\ Len(Schema.expandedDates[Schema.dateIndices[k]]) > 0

\* the (row, date column) pairs that the Row Transformer has to turn into a record
Eligible ==
  { p \in (1..Len(Schema.data)) \X (1..Len(Schema.dateIndices)) :
      /\ RowCategory(p[1]) # ""
      /\ AmountOf(p[1], p[2]).some
      /\ \/ IsWeekRangeColumn(p[2])
         \/ parseDate(Schema.headers[Schema.dateIndices[p[2]]]).some }

\* the position of pair p among the eligible pairs, in row order and, within
\* a row, in the order of dateIndices
Rank(p) ==
  1 + Cardinality({q \in Eligible : q[1] < p[1] \/ (q[1] = p[1] /\ q[2] < p[2])})

\* the date a record of the k-th date column carries
ColumnDate(k) ==
  LET c == Schema.dateIndices[k]
  IN IF IsWeekRangeColumn(k)
     THEN Schema.expandedDates[c][Len(Schema.expandedDates[c])]
     ELSE parseDate(Schema.headers[c]).val

\* C1: transformData returns exactly one record for every (data row, date
\* column) pair with a non-empty trimmed category, a non-null parseAmount and
\* a column that has a week-range expansion or a header that parseDate
\* resolves; it returns no other record; the records come in row order and,
\* within a row, in the order of dateIndices; each carries the caller's
\* currency and parentId.
C1_OneRecordPerResolvablePair ==
  pc = "transformed" =>
    /\ Len(result) = Cardinality(Eligible)
    /\ \A p \in Eligible :
         LET rec == result[Rank(p)]
         IN /\ rec.amount_currency = options.currency
            /\ rec.parent_id = options.parentId
            /\ rec.date = ColumnDate(p[2])
            /\ rec.amount_stringValue = toFixed2(AmountOf(p[1], p[2]).val)
            /\ rec.description = getCategoryLeaf(RowCategory(p[1]))

\* two data rows, one of them with a blank category, a date column whose
\* header does not resolve, and records of the other row
C1_Witness ==
  /\ pc = "transformed"
  /\ Len(Schema.data) = 2
  /\ RowCategory(1) = "" /\ RowCategory(2) # ""
  /\ Len(Schema.dateIndices) = 3
  /\ IsWeekRangeColumn(1)
  /\ ~parseDate(Schema.headers[Schema.dateIndices[2]]).some
  /\ ~AmountOf(2, 2).some
  /\ result = <<TransformedRow("EUR", parseFloat("100.5"), "2025-11-02", "E-2", "Ads"),
                TransformedRow("EUR", parseFloat("7"), "2025-01-01", "E-2", "Ads")>>

\* C2: findDateIndices returns exactly the columns i to the right of the
\* category column whose normalized header is date-like and for which no
\* column strictly between the category column and i has a non-empty,
\* non-date-like normalized header, in increasing order; empty and
\* white-space-only headers are skipped without ending the scan.
ScannedIndices == IF parsed.error = "" THEN Schema.dateIndices ELSE <<>>

IsTerminator(h) == Normalized(h) # "" /\ ~isValidDateHeader(Normalized(h))

C2_ScanStopsAtFirstNonDateHeader ==
  (pc # "decoded" /\ parsed.error \in {"", "NoDateColumns"}) =>
    LET hs == ConvertedHeaders
        cat == findCategoryIndex(hs)
    IN /\ Range(ScannedIndices) =
            { i \in (cat + 1)..Len(hs) :
                /\ Normalized(hs[i]) # ""
                /\ isValidDateHeader(Normalized(hs[i]))
                /\ \A j \in (cat + 1)..(i - 1) : ~IsTerminator(hs[j]) }
       /\ \A a, b \in 1..Len(ScannedIndices) : a < b => ScannedIndices[a] < ScannedIndices[b]

\* a non-date header right after a date column ends the scan: the valid date
\* header after it is excluded
C2_Witness ==
  /\ pc = "parsed"
  /\ Len(grid[1]) = 2 + NumDateCols
  /\ grid[1][3] = Str("2025-01-01") /\ grid[1][4] = Str("Notes")
  /\ grid[1][5] = Str("2025-01-01")
  /\ Schema.dateIndices = <<3>>

\* a white-space-only header before a date header does not end the scan
C2_BlankHeaderSkipped ==
  /\ pc = "parsed"
  /\ Len(grid[1]) = 2 + NumDateCols
  /\ grid[1][3] = Str("  ") /\ grid[1][4] = Str("Oct 27 ~ Nov  2")
  /\ grid[1][5] = Str("Notes")
  /\ Schema.dateIndices = <<4>>

DayNumber2025(monthZeroBased, day) == DaysFromCivil(2025, monthZeroBased + 1, 1) + day - 1

\* the two ends of a week-range-shaped header
RangeEnds(h) ==
  LET m1 == rangePattern1(Normalized(h))
      m2 == rangePattern2(Normalized(h))
      shaped == m1.ok \/ m2.ok
      startMonth == IF shaped THEN monthMap(ToLowerCase(IF m1.ok THEN m1.g1 ELSE m2.g1)) ELSE 0
  IN [shaped |-> shaped,
      startMonth |-> startMonth,
      startDay |-> ParseInt(IF m1.ok THEN m1.g2 ELSE m2.g2),
      endMonth |-> IF m1.ok THEN monthMap(ToLowerCase(m1.g3)) ELSE startMonth,
      endDay |-> ParseInt(IF m1.ok THEN m1.g4 ELSE m2.g3)]

\* a week-range-shaped header whose end date is strictly before its start date
IsInvertedRange(h) ==
  LET e == RangeEnds(h)
  IN e.shaped /\ DayNumber2025(e.endMonth, e.endDay) < DayNumber2025(e.startMonth, e.startDay)

\* C5: a week-range-shaped header whose end date is strictly before its start
\* date has no expansion (parseWeekRange returns null), is not date-like, and
\* ends the header scan; no empty expansion is ever stored in the schema.
C5_InvertedRangeEndsScan ==
  (pc # "decoded" /\ parsed.error \in {"", "NoDateColumns"}) =>
    LET hs == ConvertedHeaders
        cat == findCategoryIndex(hs)
    IN /\ \A i \in (cat + 1)..Len(hs) :
            IsInvertedRange(hs[i]) =>
              /\ \A k \in 1..Len(ScannedIndices) : ScannedIndices[k] < i
              /\ i \notin DOMAIN Schema.expandedDates
       /\ \A c \in DOMAIN Schema.expandedDates :
            /\ Len(Schema.expandedDates[c]) > 0
            /\ c \in Range(ScannedIndices)

\* "Nov 9-3" after a date column ends the scan before a further date column
C5_Witness ==
  /\ pc = "parsed"
  /\ Len(grid[1]) = 2 + NumDateCols
  /\ grid[1][3] = Str("Oct 27 ~ Nov  2") /\ grid[1][4] = Str("Nov 9-3")
  /\ grid[1][5] = Str("2025-01-01")
  /\ IsInvertedRange(Schema.headers[4])
  /\ Schema.dateIndices = <<3>>
  /\ DOMAIN Schema.expandedDates = {3}

\* the calendar year of the date a serial composes to
SerialYear(n) == CivilFromDays(ExcelOriginDays + n).year

\* C10: a numeric header cell whose serial composes to a calendar year outside
\* [1900, 2100] is discarded: its column is not used as a date column and no
\* record is emitted with a date derived from that header.
C10_OutOfRangeSerialHeaderDiscarded ==
  pc = "transformed" =>
    \A i \in 1..Len(grid[1]) :
      (grid[1][i].t = "n" /\ (SerialYear(grid[1][i].n) < 1900 \/ SerialYear(grid[1][i].n) > 2100)) =>
        /\ i \notin Range(Schema.dateIndices)
        /\ \A k \in 1..Len(result) : result[k].date # excelSerialToIso(grid[1][i].n)

(***************************************************************************)
(* Properties of the resolvers (specification SpecResolver)                *)
(***************************************************************************)
TwoDigits(n) == IF n < 10 THEN "0" \o NatToString(n) ELSE NatToString(n)

\* the text YYYY-MM-DD of a calendar day
CalendarDateText(z) ==
  LET c == CivilFromDays(z)
  IN NatToString(c.year) \o "-" \o TwoDigits(c.month) \o "-" \o TwoDigits(c.day)

IsCalendarDate(y, m, d) == m \in 1..12 /\ d >= 1 /\ d <= DaysInMonth(y, m)

\* C3: for a week-range header "<Mon> <D1> - <Mon> <D2>" or "<Mon> <D1>-<D2>"
\* (both ends dates of 2025) whose start is not after its end, parseWeekRange
\* returns every calendar date of 2025 from the start date to the end date
\* inclusive, ascending, consecutive dates one day apart.
C3_WeekRangeAllDatesInclusive ==
  pc = "expanded" =>
    LET e == RangeEnds(output.header)
        first == DayNumber2025(e.startMonth, e.startDay)
        last == DayNumber2025(e.endMonth, e.endDay)
    IN (/\ e.shaped
        /\ IsCalendarDate(2025, e.startMonth + 1, e.startDay)
        /\ IsCalendarDate(2025, e.endMonth + 1, e.endDay)
        /\ first <= last) =>
         /\ output.dates.some
         /\ output.dates.val = [i \in 1..(last - first + 1) |-> CalendarDateText(first + i - 1)]

\* C6: for a slash date A/B/YYYY, parseDate returns YYYY-AA-BB when (month A,
\* day B) is a calendar date of year YYYY, otherwise YYYY-BB-AA when (month B,
\* day A) is one, otherwise null; never any other date.
C6_SlashDateMonthFirstThenDayFirst ==
  pc = "resolved" =>
    LET m == slashPattern(Trim(output.header))
        a == ParseInt(m.g1)
        b == ParseInt(m.g2)
        y == ParseInt(m.g3)
    IN m.ok =>
         output.date =
           IF IsCalendarDate(y, a, b)
           THEN Some(m.g3 \o "-" \o TwoDigits(a) \o "-" \o TwoDigits(b))
           ELSE IF IsCalendarDate(y, b, a)
           THEN Some(m.g3 \o "-" \o TwoDigits(b) \o "-" \o TwoDigits(a))
           ELSE NullString

\* the months in calendar order, okt being October
MonthNumber(key) ==
  IF key = "okt" THEN 10
  ELSE CHOOSE n \in 1..12 :
         <<"jan", "feb", "mar", "apr", "may", "jun", "jul", "aug", "sep", "oct",
           "nov", "dec">>[n] = key

\* C7: for every month abbreviation (any letter case, okt as October) and
\* every day valid for that month, parseDate("<Mon> <day>") returns
\* "2025-MM-DD", month and day zero-padded to two digits.
C7_MonthNameResolvesIn2025 ==
  (pc = "resolved" /\ input.t = "s" /\ input.s \in MonthDayInputs) =>
    LET month == MonthNumber(ToLowerCase(SubSeq(input.s, 1, 3)))
        day == ParseInt(SubSeq(input.s, 5, Len(input.s)))
    IN IsCalendarDate(2025, month, day) =>
         output.date = Some("2025-" \o TwoDigits(month) \o "-" \o TwoDigits(day))

\* "OKT 9" resolves to 2025-10-09
C7_Witness ==
  /\ pc = "resolved"
  /\ input = Str("OKT 9")
  /\ output.date = Some("2025-10-09")

\* four digits, a hyphen, two digits, a hyphen, two digits
IsYearMonthDayShape(s) ==
  /\ Len(s) = 10
  /\ \A i \in {1, 2, 3, 4, 6, 7, 9, 10} : IsDigit(Ch(s, i))
  /\ Ch(s, 5) = "-" /\ Ch(s, 8) = "-"

\* C8: for every string of the shape YYYY-MM-DD, parseDate returns that
\* string unchanged, whatever the other date rules would make of it.
C8_IsoShapeReturnedUnchanged ==
  (pc = "resolved" /\ IsYearMonthDayShape(output.header)) =>
    output.date = Some(output.header)

\* "2025-13-45" has the shape and names no date: it is returned as it is
C8_Witness ==
  /\ pc = "resolved"
  /\ input = Str("2025-13-45")
  /\ output.date = Some("2025-13-45")

\* C9: for every all-digit string denoting a serial n > 0, parseDate returns
\* the UTC calendar date n days after 1899-12-30, and null for n = 0; for a
\* numeric header cell n whose composed year lies in [1900, 2100] the ISO
\* string of the header conversion equals parseDate(String(n)).
C9_SerialIsDaysAfterOrigin ==
  /\ (pc = "resolved" /\ AllDigits(output.header)) =>
       LET n == ParseInt(output.header)
       IN output.date = IF n = 0 THEN NullString
                        ELSE Some(CalendarDateText(ExcelOriginDays + n))
  /\ (pc = "converted" /\ input.t = "n" /\ SerialYear(input.n) \in 1900..2100) =>
       Some(output.header) = parseDate(NumberToString(input.n))

(***************************************************************************)
(* Properties of the Amount Resolver (specification SpecAmount)            *)
(***************************************************************************)
\* the cell's text, trimmed, with its first comma replaced by a point
AmountText == ReplaceFirstComma(Trim(input.s))

\* [+-] digits [. digits] and nothing else
IsPlainDecimal(s) ==
  LET p == IF Len(s) >= 1 /\ Ch(s, 1) \in {"+", "-"} THEN 2 ELSE 1
      n1 == DigitRun(s, p)
  IN /\ n1 > 0
     /\ \/ p + n1 - 1 = Len(s)
        \/ /\ p + n1 < Len(s)
           /\ Ch(s, p + n1) = "."
           /\ AllDigits(SubSeq(s, p + n1 + 1, Len(s)))

\* the number a plain decimal denotes
PlainDecimalValue(s) ==
  LET p == IF Ch(s, 1) \in {"+", "-"} THEN 2 ELSE 1
      n1 == DigitRun(s, p)
  IN [kind |-> "num", neg |-> Ch(s, 1) = "-", int |-> SubSeq(s, p, p + n1 - 1),
      frac |-> SubSeq(s, p + n1 + 1, Len(s)), exp |-> 0]

\* C11: parseAmount returns null or a finite number, never NaN or an infinite
\* value: null for a missing, empty or white-space-only cell and for text
\* without a digit; for a plain decimal (after replacing the first comma only
\* by a point) the number it denotes.
C11_ParseAmountNullOrFinite ==
  pc = "amountParsed" =>
    /\ output.amount.some => output.amount.val.kind = "num"
    /\ (input.t = "u" \/ Trim(input.s) = "") => ~output.amount.some
    /\ (input.t # "u" /\ \A i \in 1..Len(input.s) : ~IsDigit(Ch(input.s, i)))
         => ~output.amount.some
    /\ (input.t # "u" /\ IsPlainDecimal(AmountText))
         => output.amount = Some(PlainDecimalValue(AmountText))

\* C12: amount.stringValue of a record is an optional sign, one or more
\* digits, a point and exactly two digits, for every amount parseAmount can
\* return.
C12_StringValueHasTwoDecimals ==
  pc = "formatted" =>
    LET t == output.text
        u == IF Len(t) >= 1 /\ Ch(t, 1) \in {"+", "-"} THEN SubSeq(t, 2, Len(t)) ELSE t
    IN /\ Len(u) >= 4
       /\ AllDigits(SubSeq(u, 1, Len(u) - 3))
       /\ Ch(u, Len(u) - 2) = "."
       /\ AllDigits(SubSeq(u, Len(u) - 1, Len(u)))

(***************************************************************************)
(* Further properties of the file pipeline (specification Spec)            *)
(***************************************************************************)
\* the text after the last '>' of a category (all of it when it has none),
\* trimmed
LastSegment(c) ==
  LET start == CHOOSE i \in 1..(Len(c) + 1) :
                 /\ (i = 1 \/ Ch(c, i - 1) = ">")
                 /\ \A j \in i..Len(c) : Ch(c, j) # ">"
  IN Trim(SubSeq(c, start, Len(c)))

HasContent(row) ==
  \E c \in 1..Len(row) : row[c].t = "n" \/ Trim(row[c].s) # ""

\* the date-like columns right of column cat that no non-date header precedes
ExpectedDateColumns(hs, cat) ==
  { i \in (cat + 1)..Len(hs) :
      /\ Normalized(hs[i]) # ""
      /\ isValidDateHeader(Normalized(hs[i]))
      /\ \A j \in (cat + 1)..(i - 1) : ~IsTerminator(hs[j]) }

\* the file-level error the parser owes a grid, "" when it owes a schema
ExpectedError(g) ==
  IF Len(g) = 0 THEN "EmptyFile"
  ELSE LET hs == [i \in 1..Len(g[1]) |-> ConvertHeader(g[1][i])]
           cats == {i \in 1..Len(hs) : Trim(ToLowerCase(hs[i])) = "category"}
       IN IF cats = {} THEN "MissingCategoryColumn"
          ELSE IF ExpectedDateColumns(hs, CHOOSE i \in cats : \A j \in cats : i <= j) = {}
          THEN "NoDateColumns"
          ELSE IF \A r \in 2..Len(g) : ~HasContent(g[r]) THEN "EmptyDataset"
          ELSE ""

\* C14: parseArrayData fails with exactly one file-level error, chosen by the
\* first failing check in the order EmptyFile (no rows), MissingCategoryColumn
\* (no header equal to "category" after trimming and lower-casing),
\* NoDateColumns (the scan right of the category column finds no date column),
\* EmptyDataset (every row below the header is blank); it returns a schema
\* if and only if none of these holds.
C14_FirstFailingCheckDecidesError ==
  pc \in {"parsed", "failed"} =>
    /\ parsed.error = ExpectedError(grid)
    /\ pc = "parsed" <=> ExpectedError(grid) = ""

\* the pair of row r and date column k has a cell-level or row-level
\* problem: a blank or missing category, a missing or non-numeric amount, a
\* header that is no week range and does not resolve
IsAffected(r, k) ==
  \/ RowCategory(r) = ""
  \/ Schema.dateIndices[k] > Len(Schema.data[r])
  \/ ~AmountOf(r, k).some
  \/ ~IsWeekRangeColumn(k) /\ ~parseDate(Schema.headers[Schema.dateIndices[k]]).some

Affected ==
  { p \in (1..Len(Schema.data)) \X (1..Len(Schema.dateIndices)) : IsAffected(p[1], p[2]) }

\* the records of the date columns k.. of row r
RECURSIVE RecordsOfRow(_, _)
RecordsOfRow(r, k) ==
  IF k > Len(Schema.dateIndices) THEN <<>>
  ELSE IF IsAffected(r, k) THEN RecordsOfRow(r, k + 1)
  ELSE <<[date |-> ColumnDate(k), amount |-> toFixed2(AmountOf(r, k).val)]>>
         \o RecordsOfRow(r, k + 1)

\* the records of the rows r.., row after row
RECURSIVE RecordsFromRow(_)
RecordsFromRow(r) ==
  IF r > Len(Schema.data) THEN <<>> ELSE RecordsOfRow(r, 1) \o RecordsFromRow(r + 1)

RECURSIVE Squash(_)
Squash(s) ==
  IF s = "" THEN ""
  ELSE (IF Ch(s, 1) \in {" ", "_"} THEN "" ELSE ToLowerCase(Ch(s, 1)))
         \o Squash(SubSeq(s, 2, Len(s)))

\* some header is labeled as an entity identifier / as a currency, whatever
\* its case, spaces and underscores
HasEntityLabel(hs) ==
  \E i \in 1..Len(hs) : Squash(hs[i]) \in {Squash(l) : l \in EntityIdLabels}
HasCurrencyLabel(hs) ==
  \E i \in 1..Len(hs) : Squash(hs[i]) \in {Squash(l) : l \in CurrencyLabels}

MissingRequiredColumn == {"MissingEntityIdColumn", "MissingCurrencyColumn"}

\* C16: in multi-entity mode a header row with a column labeled, case-,
\* space- and underscore-insensitively, as an entity identifier and a column
\* labeled as currency has the required columns; when either is absent
\* parseArrayDataMulti fails with MissingRequiredColumn whatever the
\* category/date scan would give, the entity check coming before the
\* currency check and both before the category check.
C16_RequiredColumnsDecideFirst ==
  (pc \in {"parsed", "failed"} /\ Len(grid) > 0) =>
    /\ (HasEntityLabel(ConvertedHeaders) /\ HasCurrencyLabel(ConvertedHeaders))
         => parsed.error \notin MissingRequiredColumn
    /\ ~HasEntityLabel(ConvertedHeaders) => parsed.error = "MissingEntityIdColumn"
    /\ (HasEntityLabel(ConvertedHeaders) /\ ~HasCurrencyLabel(ConvertedHeaders))
         => parsed.error = "MissingCurrencyColumn"

\* the currency and the entity id a record of data row r has to carry
RowCurrency(r) ==
  IF Schema.currencyIndex <= Len(Schema.data[r])
  THEN Trim(ToUpperCase(Schema.data[r][Schema.currencyIndex])) ELSE ""
RowEntity(r) ==
  IF Schema.entityIdIndex <= Len(Schema.data[r])
  THEN Trim(Schema.data[r][Schema.entityIdIndex]) ELSE ""

\* the number of records of data row r in multi-entity mode
RowRecordCount(r) ==
  IF RowCategory(r) = "" \/ RowCurrency(r) = "" \/ RowEntity(r) = "" THEN 0
  ELSE Cardinality({k \in 1..Len(Schema.dateIndices) :
                      /\ parseDate(Schema.headers[Schema.dateIndices[k]]).some
                      /\ AmountOf(r, k).some})

\* the (currency, entity id) of the records of the rows r.., in order
RECURSIVE OwnersFromRow(_)
OwnersFromRow(r) ==
  IF r > Len(Schema.data) THEN <<>>
  ELSE [i \in 1..RowRecordCount(r) |-> <<RowCurrency(r), RowEntity(r)>>]
         \o OwnersFromRow(r + 1)

\* C17: in multi-entity mode a data row gives no record when its currency
\* cell or its entity-id cell is blank after trimming; otherwise every record
\* of the row carries the row's own currency, upper-cased and trimmed, and
\* the row's own trimmed entity id, never those of another row.
C17_RecordsCarryOwnRowCurrencyAndEntity ==
  pc \in {"transformed", "downloaded"} =>
    [i \in 1..Len(result) |-> <<result[i].amount_currency, result[i].parent_id>>]
      = OwnersFromRow(1)

\* a row without currency gives nothing, the row " e2 " / " usd " below it
\* gives two records of entity e2 in USD
C17_Witness ==
  /\ pc = "transformed"
  /\ Len(grid) = 3
  /\ grid[2][2] = Str("") /\ grid[2][1] = Str("E3")
  /\ grid[3][2] = Str(" usd ")
  /\ [i \in 1..Len(result) |-> <<result[i].amount_currency, result[i].parent_id>>]
       = <<<<"USD", "e2">>, <<"USD", "e2">>>>

\* every data row of the schema has the same upper-case currency and the same
\* entity id, written without padding
UniformRows ==
  /\ Len(Schema.data) > 0
  /\ \A r \in 1..Len(Schema.data) :
       /\ Len(Schema.data[r]) >= Schema.currencyIndex
       /\ Len(Schema.data[r]) >= Schema.entityIdIndex
       /\ Schema.data[r][Schema.currencyIndex] = Schema.data[1][Schema.currencyIndex]
       /\ Schema.data[r][Schema.entityIdIndex] = Schema.data[1][Schema.entityIdIndex]
  /\ RowCurrency(1) = Schema.data[1][Schema.currencyIndex]
  /\ RowEntity(1) = Schema.data[1][Schema.entityIdIndex]
  /\ RowCurrency(1) # "" /\ RowEntity(1) # ""

\* C18: multi-entity mode scans categories and dates and emits records per
\* column as single-entity mode does: for a grid accepted by both entry
\* points in which every data row has currency C (upper-case) and entity id
\* E, transformDataMulti returns the records of transformData called with
\* currency C and parentId E, week-range columns included (one record per
\* row, dated with the last date of the range).
C18_MultiEqualsSingle ==
  (pc = "transformed" /\ UniformRows /\ parseArrayData(grid).error = "") =>
    result = transformData(parseArrayData(grid).schema,
                           [currency |-> RowCurrency(1), parentId |-> RowEntity(1)])

\* the fields of text s between the separators sep
Split(s, sep) ==
  LET P == {i \in 1..Len(s) : Ch(s, i) = sep}
      pos(n) == IF n = 0 THEN 0
                ELSE IF n = Cardinality(P) + 1 THEN Len(s) + 1
                ELSE CHOOSE i \in P : Cardinality({j \in P : j < i}) = n - 1
  IN [n \in 1..(Cardinality(P) + 1) |-> SubSeq(s, pos(n - 1) + 1, pos(n) - 1)]

\* line is the line of record row: 7 fields in the column order
IsLineOf(fields, row) ==
  /\ Len(fields) = 7
  /\ fields[1] = row.amount_currency
  /\ fields[2] = row.amount_stringValue
  /\ fields[3] = row.date
  /\ fields[4] = row.parent_id
  /\ fields[5] = row.parent_type
  /\ fields[6] = row.description
  /\ fields[7] = row.metadata_atlar_category

\* C20: for a non-empty list of records generateCSV returns text without
\* byte-order mark, lines joined by newlines, the first line being exactly
\* "amount.currency,amount.stringValue,date,parent.id,parent.type,description,metadata.atlar.category"
\* and one further line per record of exactly 7 comma-separated fields in
\* that column order, for every description and parent id that can occur;
\* for an empty list it returns the empty string.
C20_CsvHasSevenFieldsPerRecord ==
  "csv" \in output.made =>
    IF Len(result) = 0 THEN output.text = ""
    ELSE /\ Len(Split(output.text, "\n")) = Len(result) + 1
         /\ Split(output.text, "\n")[1] =
              "amount.currency,amount.stringValue,date,parent.id,parent.type,description,metadata.atlar.category"
         /\ \A i \in 1..Len(result) :
              IsLineOf(Split(Split(output.text, "\n")[i + 1], ","), result[i])

(***************************************************************************)
(* Further properties of the resolvers (specification SpecResolver)        *)
(***************************************************************************)
\* C19: every parsing and transform function is deterministic and
\* independent of the host environment: two runs of parseDate or of the
\* week-range expansion on the same input return identical output whatever
\* the host's time zone, locale or clock (a slash date such as 01/01/2025
\* resolves to the same value under every time-zone offset).
C19_SecondRunGivesSameOutput ==
  [][/\ pc' = "resolvedAgain" => output'.date = output.date
     /\ pc' = "expandedAgain" => output'.dates = output.dates]_vars

(***************************************************************************)
(* Properties of the serializers (specification Spec)                      *)
(***************************************************************************)
\* the lines of the text generateCSV returned
CsvLines == Split(output.text, "\n")

KeptRows(g) ==
  [r \in 1..Len(SelectSeq(Tail(g), HasContent)) |->
     [c \in 1..Len(SelectSeq(Tail(g), HasContent)[r]) |->
        CellToString(SelectSeq(Tail(g), HasContent)[r][c])]]

\* C22: during parsing a data row is discarded if and only if every one of
\* its cells is empty or white space only (a row with any other cell value,
\* a numeric zero read from a workbook included, is kept); kept rows keep
\* their relative order and all their cells, as strings; EmptyDataset is
\* raised if and only if every row below the header is fully blank.
C22_OnlyBlankRowsDiscarded ==
  /\ pc = "parsed" => Schema.data = KeptRows(grid)
  /\ pc \in {"parsed", "failed"} =>
       (parsed.error = "EmptyDataset" <=> ExpectedError(grid) = "EmptyDataset")

\* the day number of a date written YYYY-MM-DD
DayOfIso(s) ==
  DaysFromCivil(ParseInt(SubSeq(s, 1, 4)), ParseInt(SubSeq(s, 6, 7)),
                ParseInt(SubSeq(s, 9, 10)))

\* a non-empty list of dates, each later than the one before
IsAscendingDates(dates) ==
  /\ Len(dates) > 0
  /\ \A i \in 1..Len(dates) : isoPattern(dates[i])
  /\ \A i \in 1..(Len(dates) - 1) : DayOfIso(dates[i]) < DayOfIso(dates[i + 1])

\* C23: every schema of a successful parse has: categoryIndex the index of a
\* header equal to "category" after trimming and lower-casing; dateIndices
\* non-empty, strictly increasing, every element greater than categoryIndex
\* and of a date-like normalized header; every key of expandedDates an
\* element of dateIndices; every stored expansion a non-empty ascending list
\* of dates.  transformData leaves the schema and the data rows unchanged.
C23_SchemaIsWellFormed ==
  pc \in {"parsed", "transformed", "downloaded"} =>
    /\ Schema.categoryIndex \in 1..Len(Schema.headers)
    /\ Trim(ToLowerCase(Schema.headers[Schema.categoryIndex])) = "category"
    /\ Len(Schema.dateIndices) > 0
    /\ \A k \in 1..(Len(Schema.dateIndices) - 1) :
         Schema.dateIndices[k] < Schema.dateIndices[k + 1]
    /\ \A k \in 1..Len(Schema.dateIndices) :
         /\ Schema.dateIndices[k] > Schema.categoryIndex
         /\ Schema.dateIndices[k] <= Len(Schema.headers)
         /\ isValidDateHeader(Normalized(Schema.headers[Schema.dateIndices[k]]))
    /\ DOMAIN Schema.expandedDates \subseteq Range(Schema.dateIndices)
    /\ \A c \in DOMAIN Schema.expandedDates : IsAscendingDates(Schema.expandedDates[c])
    /\ parsed = parseArrayData(grid)

\* a transformed schema with three date columns, a week range of seven days
\* among them
C23_Witness ==
  /\ pc = "transformed"
  /\ Len(result) > 0
  /\ Len(Schema.dateIndices) = 3
  /\ \E c \in DOMAIN Schema.expandedDates : Len(Schema.expandedDates[c]) = 7

\* s is written YYYY-MM-DD and names a day of the calendar
IsIsoCalendarDate(s) ==
  /\ isoPattern(s)
  /\ IsCalendarDate(ParseInt(SubSeq(s, 1, 4)), ParseInt(SubSeq(s, 6, 7)),
                    ParseInt(SubSeq(s, 9, 10)))

\* C24: in every record of transformData or transformDataMulti, for every
\* grid the parser accepts, the date field is an ISO calendar date: a string
\* YYYY-MM-DD whose month is in 1..12 and whose day exists in that month and
\* year (ISO headers returned verbatim, month-name headers with any 1-2 digit
\* day, serial headers of any magnitude, week-range end dates).
C24_RecordDateIsCalendarDate ==
  pc \in {"transformed", "downloaded"} =>
    \A i \in 1..Len(result) : IsIsoCalendarDate(result[i].date)

\* C28: every record of transformData or transformDataMulti has a non-empty
\* description: whenever a row's trimmed category is non-empty, the leaf
\* getCategoryLeaf computes is non-empty, also for categories that end with
\* '>' or consist of '>' separators and spaces only.
C28_DescriptionIsNonEmpty ==
  pc \in {"transformed", "downloaded"} =>
    \A i \in 1..Len(result) : result[i].description # ""

\* C26: parseDate is idempotent on its own results: for every input x for
\* which parseDate(x) is a string s (ISO, slash, month-name or serial input
\* of any magnitude), parseDate(s) is s; passing a resolved date through the
\* Date Resolver again never changes it and never fails.
C26_ParseDateIdempotentOnResults ==
  [][pc' = "resolvedTwice" => output'.date = output.date]_vars

\* C27: the Header Classifier and the Date Resolver agree on single-date
\* headers: every header that puts its column into dateIndices without a
\* week-range expansion is one parseDate resolves to a date, and every header
\* parseDate resolves to a date is date-like for isValidDateHeader.
C27_ClassifierAndResolverAgree ==
  pc = "resolved" =>
    /\ ( /\ output.header # "" /\ Normalized(output.header) # ""
         /\ isValidDateHeader(Normalized(output.header))
         /\ ~parseWeekRange(Normalized(output.header)).some )
         => output.date.some
    /\ output.date.some => isValidDateHeader(output.header)

(***************************************************************************)
(* Properties of the upload wizard (specification SpecWizard)              *)
(***************************************************************************)
\* C25: parseFile and parseFileMulti reject a file as UnsupportedFormat
\* exactly when its extension is outside {.csv, .xlsx, .xls}, the set the
\* upload component compares the lower-cased extension with; so a file that
\* passed validateFile is parsed, and the page never shows UnsupportedFormat.
C25_ValidatedFilesAreNeverUnsupported ==
  /\ \A i \in 1..Len(pending) :
       /\ parseFile(pending[i].file).error = "UnsupportedFormat"
            <=> ~validateFile(pending[i].file)
       /\ parseFileMulti(pending[i].file).error = "UnsupportedFormat"
            <=> ~validateFile(pending[i].file)
  /\ page.error # "UnsupportedFormat"

\* the file handleFileSelect was last called with is still the one shown
\* and no parse is in flight
Settled == Len(pending) = 0 /\ page.selectedFile.some

\* what handleFileSelect leaves on the page for one file, parsed alone
ParsedDataOf(file) ==
  IF parseFile(file).error = "" THEN Some(parseFile(file).schema) ELSE NullData
ParsedDataMultiOf(file) ==
  IF parseFileMulti(file).error = "" THEN Some(parseFileMulti(file).schema)
  ELSE NullDataMulti

\* C29: once no parse is in flight, the schema the page holds is the one of
\* the file shown as selectedFile, the file selected last: the parse of a
\* file selected earlier never overwrites it, whatever the order in which
\* the parses settle.
C29_LatestSelectionWins ==
  Settled =>
    IF page.activeTab = "multi"
    THEN /\ page.parsedDataMulti = ParsedDataMultiOf(page.selectedFile.val)
         /\ page.parsedData = NullData
    ELSE /\ page.parsedData = ParsedDataOf(page.selectedFile.val)
         /\ page.parsedDataMulti = NullDataMulti

\* the schema of the active mode, when one is held
HeldSchema ==
  IF page.activeTab = "multi" THEN page.parsedDataMulti.some
  ELSE page.parsedData.some

TransformOfHeld ==
  IF page.activeTab = "multi" THEN transformDataMulti(page.parsedDataMulti.val)
  ELSE transformData(page.parsedData.val,
                     [currency |-> ToUpperCase(page.currency),
                      parentId |-> page.parentId])

\* C30: the wizard is at step 2 or 3 only while a parsed schema of the
\* active mode is held, and at step 3 only while transformedData is the
\* transform of that schema.
C30_StepsHoldTheirData ==
  /\ page.currentStep \in {2, 3} => HeldSchema
  /\ page.currentStep = 3 => HeldSchema /\ page.transformedData = TransformOfHeld

====
